---- MODULE Spec2Model ----
(***************************************************************************)
(* mjpeg-proxy: one hub (PubSub) republishing one upstream MJPEG stream    *)
(* (Chunker) to many HTTP clients (ServeHTTP).                             *)
(*                                                                         *)
(* The hub loop, the reader goroutines started by the hub and the client   *)
(* request goroutines are separate processes; every action below is one    *)
(* handler of the hub loop, one blocking step of a reader goroutine, one   *)
(* blocking step of a client goroutine, or one event of the environment    *)
(* (the runtime timer, the upstream server, the client's connection).      *)
(***************************************************************************)
EXTENDS Integers, Sequences, FiniteSets, TLC

\* ------------------------------------------------------------------ bounds
NumClients == 2
MaxConnects == 2
MaxFrames == 2

Clients == 1..NumClients
Conns == 1..MaxConnects

\* ------------------------------------------------------------------- state
VARIABLES
  subscribers,  \* PubSub.subscribers: the set of subscribers
  pubChan,      \* PubSub.pubChan: 0 is nil, i is the channel made for connection i
  stopTimer,    \* PubSub.stopTimer: "idle" (stopped or drained), "armed", "fired" (expiry in C),
                \* "stale" (running with an earlier expiry still in C)
  resp,         \* Chunker.resp: 0 is nil, i is the response of the i-th Connect() call
  stop,         \* Chunker.stop: 0 is nil, i is the channel made by the i-th Connect() call
  stopCloses,   \* number of close() calls on each stop channel
  connects,     \* number of Connect() calls made so far
  bodyOpen,     \* response bodies opened by Connect() and not closed yet
  rpc,          \* position of the goroutine running Chunker.Start for connection i
  rbody,        \* the local variable body of that goroutine
  rframe,       \* the frame that goroutine is handing to pubChan
  failure,      \* the local variable failure of that goroutine
  pubClosed,    \* frame channels closed by their reader goroutine
  nframes,      \* number of frames decoded from the upstream so far
  published,    \* frames the hub loop has taken from pubChan, in order
  pc,           \* position of each client goroutine in ServeHTTP
  closes,       \* number of close() calls on the subscriber's ChunkChannel
  received,     \* frames the client took from its ChunkChannel, in order
  headersSent,  \* ServeHTTP local headersSent
  chunkOk,      \* ServeHTTP local chunkOk
  status,       \* response status written by ServeHTTP: "none", "200", "503", "405"
  header,       \* response header fields set by ServeHTTP: a set of <<name, value>>
  panicked,     \* a goroutine hit a runtime panic (the process is dead)
  call          \* one call of a function of the program: its name, its arguments
                \* and, once it has returned, what it returned and did

hubVars == <<subscribers, pubChan, stopTimer>>
chunkerVars == <<resp, stop, stopCloses, connects, bodyOpen>>
readerVars == <<rpc, rbody, rframe, failure, pubClosed, nframes>>
clientVars == <<pc, received, headersSent, chunkOk, status, header>>
vars == <<subscribers, pubChan, stopTimer, resp, stop, stopCloses, connects,
          bodyOpen, rpc, rbody, rframe, failure, pubClosed, nframes, published,
          pc, closes, received, headersSent, chunkOk, status, header, panicked,
          call>>

Min(a, b) == IF a < b THEN a ELSE b
Last(s) == s[Len(s)]

\* ------------------------------------------------------------ construction
\* No function call is under study.
NoCall == [fn |-> "none", args |-> <<>>, returned |-> FALSE, out |-> <<>>]

\* main(): the hub and the chunker as constructed, no request made yet.
Constructed ==
  /\ subscribers = {}
  /\ pubChan = 0
  /\ stopTimer = "idle"
  /\ resp = 0
  /\ stop = 0
  /\ stopCloses = [i \in Conns |-> 0]
  /\ connects = 0
  /\ bodyOpen = {}
  /\ rpc = [i \in Conns |-> "none"]
  /\ rbody = [i \in Conns |-> 0]
  /\ rframe = [i \in Conns |-> 0]
  /\ failure = [i \in Conns |-> "nil"]
  /\ pubClosed = {}
  /\ nframes = 0
  /\ published = <<>>
  /\ pc = [c \in Clients |-> "idle"]
  /\ closes = [c \in Clients |-> 0]
  /\ received = [c \in Clients |-> <<>>]
  /\ headersSent = [c \in Clients |-> FALSE]
  /\ chunkOk = [c \in Clients |-> FALSE]
  /\ status = [c \in Clients |-> "none"]
  /\ header = [c \in Clients |-> {}]
  /\ panicked = FALSE

Init ==
  /\ Constructed
  /\ call = NoCall

\* ----------------------------------------------------------------- Chunker
\* Chunker.Started: the stop channel exists and is not closed.
Started == stop # 0 /\ stopCloses[stop] = 0

\* Connect that makes the stop channel before the exchange, so a failed call
\* leaves a fresh open one.
ConnectMakesStopFirst(ok) ==
  /\ connects' = connects + 1
  /\ stop' = connects'
  /\ IF ok
       THEN /\ resp' = connects'
            /\ bodyOpen' = bodyOpen \cup {connects'}
       ELSE UNCHANGED <<resp, bodyOpen>>
  /\ UNCHANGED stopCloses

\* Chunker.Connect: ok is the outcome of the HTTP exchange (status 200 with a
\* multipart boundary).  On failure every response that was opened is closed
\* before returning and no field is written.
Connect(ok) ==
  /\ connects' = connects + 1
  /\ IF ok
       THEN /\ resp' = connects'
            /\ stop' = connects'
            /\ bodyOpen' = bodyOpen \cup {connects'}
       ELSE UNCHANGED <<resp, stop, bodyOpen>>
  /\ UNCHANGED stopCloses

\* Chunker.Stop: close(chunker.stop); closing nil or a closed channel panics.
StopPanics == stop = 0 \/ stopCloses[stop] > 0
ChunkerStop ==
  stopCloses' = [i \in Conns |-> IF i = stop THEN Min(stopCloses[i] + 1, 2)
                                             ELSE stopCloses[i]]

\* -------------------------------------------------------------- time.Timer
\* A timer is running or not, and its channel C (capacity 1) holds an expiry
\* or not.
TimerActive(t) == t \in {"armed", "stale"}
TimerPending(t) == t \in {"fired", "stale"}
Timer(active, pending) ==
  IF active THEN (IF pending THEN "stale" ELSE "armed")
            ELSE (IF pending THEN "fired" ELSE "idle")

\* Timer.Stop returns TimerActive(t) and leaves the timer not running.
TimerStop(t) == Timer(FALSE, TimerPending(t))
\* select { case <-t.C: default: }
TimerDrain(t) == Timer(TimerActive(t), FALSE)
\* Timer.Reset(stopDelay)
TimerReset(t) == Timer(TRUE, TimerPending(t))
\* The expiry: a non-blocking send of the time on C.
TimerExpire(t) == Timer(FALSE, TRUE)

\* ------------------------------------------------------------------ PubSub
\* PubSub.startChunker returns an error iff Connect() was called and failed.
startChunkerFails(ok) == ~Started /\ ~ok

\* startChunker without the Started() guard: Connect() on every call.
startChunkerNoGuard(ok) ==
  /\ connects < MaxConnects
  /\ Connect(ok)
  /\ IF ok
       THEN /\ pubChan' = connects'
            /\ rpc' = [rpc EXCEPT ![connects'] = "spawned"]
       ELSE UNCHANGED <<pubChan, rpc>>

startChunker(ok) ==
  IF Started
    THEN UNCHANGED <<resp, stop, stopCloses, connects, bodyOpen, pubChan, rpc>>
    ELSE /\ connects < MaxConnects
         /\ Connect(ok)
         /\ IF ok
              THEN /\ pubChan' = connects'
                   /\ rpc' = [rpc EXCEPT ![connects'] = "spawned"]
              ELSE UNCHANGED <<pubChan, rpc>>

\* stopChunker that forgets to reset pubChan.
stopChunkerKeepChan ==
  /\ IF pubChan # 0
       THEN ChunkerStop
       ELSE UNCHANGED stopCloses
  /\ UNCHANGED pubChan

\* stopChunker that resets pubChan without calling Stop().
stopChunkerNoStop ==
  /\ UNCHANGED stopCloses
  /\ pubChan' = 0

\* PubSub.stopChunker
stopChunker ==
  /\ IF pubChan # 0
       THEN ChunkerStop
       ELSE UNCHANGED stopCloses
  /\ pubChan' = 0

stopChunkerPanics == pubChan # 0 /\ StopPanics

\* PubSub.stopSubscribers over the set S; closing a closed channel panics.
stopSubscribers(S) ==
  closes' = [c \in Clients |-> IF c \in S THEN Min(closes[c] + 1, 2) ELSE closes[c]]

stopSubscribersPanics(S) == \E c \in S : closes[c] > 0

\* doPublish that gives up at a subscriber that is not ready: nobody gets
\* the frame unless everybody is ready.
doPublishStopAtBusy(data) ==
  LET ready == IF \A c \in subscribers : pc[c] = "recv" THEN subscribers ELSE {} IN
  /\ received' = [c \in Clients |->
                    IF c \in ready THEN Append(received[c], data) ELSE received[c]]
  /\ chunkOk' = [c \in Clients |-> IF c \in ready THEN TRUE ELSE chunkOk[c]]
  /\ pc' = [c \in Clients |-> IF c \in ready THEN "write" ELSE pc[c]]
  /\ panicked' = (\E c \in subscribers : closes[c] > 0)

\* doPublish with a blocking send: the hub loop waits for every subscriber.
doPublishBlocking(data) ==
  /\ \A c \in subscribers : pc[c] = "recv"
  /\ received' = [c \in Clients |->
                    IF c \in subscribers THEN Append(received[c], data) ELSE received[c]]
  /\ chunkOk' = [c \in Clients |-> IF c \in subscribers THEN TRUE ELSE chunkOk[c]]
  /\ pc' = [c \in Clients |-> IF c \in subscribers THEN "write" ELSE pc[c]]
  /\ panicked' = (\E c \in subscribers : closes[c] > 0)

\* doPublish that hands the newest frame over ahead of the earlier ones.
doPublishPrepend(data) ==
  LET ready == {c \in subscribers : pc[c] = "recv"} IN
  /\ received' = [c \in Clients |->
                    IF c \in ready THEN <<data>> \o received[c] ELSE received[c]]
  /\ chunkOk' = [c \in Clients |-> IF c \in ready THEN TRUE ELSE chunkOk[c]]
  /\ pc' = [c \in Clients |-> IF c \in ready THEN "write" ELSE pc[c]]
  /\ panicked' = (\E c \in subscribers : closes[c] > 0)

\* PubSub.doPublish: one non-blocking send per subscriber.  The send succeeds
\* iff the client goroutine is parked in its receive; sending on a closed
\* channel panics.
doPublish(data) ==
  LET ready == {c \in subscribers : pc[c] = "recv"} IN
  /\ received' = [c \in Clients |->
                    IF c \in ready THEN Append(received[c], data) ELSE received[c]]
  /\ chunkOk' = [c \in Clients |-> IF c \in ready THEN TRUE ELSE chunkOk[c]]
  /\ pc' = [c \in Clients |-> IF c \in ready THEN "write" ELSE pc[c]]
  /\ panicked' = (\E c \in subscribers : closes[c] > 0)

\* doSubscribe without the len(subscribers) == 1 test: every subscribe
\* tries to start the chunker.
doSubscribeAlways(s, ok) ==
  /\ subscribers' = subscribers \cup {s}
  /\ startChunker(ok)
  /\ IF startChunkerFails(ok)
       THEN /\ stopSubscribers(subscribers')
            /\ panicked' = stopSubscribersPanics(subscribers')
       ELSE UNCHANGED <<closes, panicked>>

\* doSubscribe that only logs a failed start.
doSubscribeNoClose(s, ok) ==
  /\ subscribers' = subscribers \cup {s}
  /\ IF Cardinality(subscribers') = 1
       THEN /\ startChunker(ok)
            /\ UNCHANGED <<closes, panicked>>
       ELSE UNCHANGED <<resp, stop, stopCloses, connects, bodyOpen, pubChan, rpc,
                        closes, panicked>>

\* doSubscribe that restarts a reader that has ended: it starts the chunker
\* whenever the hub has no frame channel.
doSubscribeRestart(s, ok) ==
  /\ subscribers' = subscribers \cup {s}
  /\ IF Cardinality(subscribers') = 1 \/ pubChan = 0
       THEN /\ startChunker(ok)
            /\ IF startChunkerFails(ok)
                 THEN /\ stopSubscribers(subscribers')
                      /\ panicked' = stopSubscribersPanics(subscribers')
                 ELSE UNCHANGED <<closes, panicked>>
       ELSE UNCHANGED <<resp, stop, stopCloses, connects, bodyOpen, pubChan, rpc,
                        closes, panicked>>

\* PubSub.doSubscribe
doSubscribe(s, ok) ==
  /\ subscribers' = subscribers \cup {s}
  /\ IF Cardinality(subscribers') = 1
       THEN /\ startChunker(ok)
            /\ IF startChunkerFails(ok)
                 THEN /\ stopSubscribers(subscribers')
                      /\ panicked' = stopSubscribersPanics(subscribers')
                 ELSE UNCHANGED <<closes, panicked>>
       ELSE UNCHANGED <<resp, stop, stopCloses, connects, bodyOpen, pubChan, rpc,
                        closes, panicked>>

\* doUnsubscribe that forgets to rearm the idle timer.
doUnsubscribeNoRearm(s) ==
  /\ subscribers' = subscribers \ {s}
  /\ UNCHANGED stopTimer

\* doUnsubscribe that rearms the timer without draining a pending expiry.
doUnsubscribeNoDrain(s) ==
  /\ subscribers' = subscribers \ {s}
  /\ IF subscribers' = {}
       THEN stopTimer' = TimerReset(TimerStop(stopTimer))
       ELSE UNCHANGED stopTimer

\* The address a subscriber is made with: the first two clients reach the
\* proxy from one address, any further client from another.
RemoteAddr(c) == IF c \in {1, 2} THEN <<"192.0.2.7">> ELSE <<"203.0.113.9">>

\* doUnsubscribe on a set keyed by address: every subscriber with the address
\* of s goes.
doUnsubscribeByAddr(s) ==
  /\ subscribers' = {d \in subscribers : RemoteAddr(d) # RemoteAddr(s)}
  /\ IF subscribers' = {}
       THEN stopTimer' = TimerReset(IF TimerActive(stopTimer)
                                      THEN TimerStop(stopTimer)
                                      ELSE TimerDrain(TimerStop(stopTimer)))
       ELSE UNCHANGED stopTimer

\* doUnsubscribe that drops the whole set when one subscriber leaves.
doUnsubscribeAll(s) ==
  /\ subscribers' = {}
  /\ stopTimer' = TimerReset(IF TimerActive(stopTimer)
                               THEN TimerStop(stopTimer)
                               ELSE TimerDrain(TimerStop(stopTimer)))

\* PubSub.doUnsubscribe: when the set becomes empty the timer is stopped,
\* a pending expiry is drained, and the timer is rearmed.
doUnsubscribe(s) ==
  /\ subscribers' = subscribers \ {s}
  /\ IF subscribers' = {}
       THEN stopTimer' = TimerReset(IF TimerActive(stopTimer)
                                      THEN TimerStop(stopTimer)
                                      ELSE TimerDrain(TimerStop(stopTimer)))
       ELSE UNCHANGED stopTimer

\* ---------------------------------------------------------- PubSub.loop
\* case data, ok := <-pubSub.pubChan, ok: the reader of the hub's current
\* frame channel is blocked in its send.
HubPublish ==
  /\ ~panicked
  /\ UNCHANGED call
  /\ pubChan # 0
  /\ rpc[pubChan] = "send"
  /\ doPublish(rframe[pubChan])
  /\ published' = Append(published, rframe[pubChan])
  /\ rpc' = [rpc EXCEPT ![pubChan] = "read"]
  /\ rframe' = [rframe EXCEPT ![pubChan] = 0]
  /\ UNCHANGED <<hubVars, chunkerVars, rbody, failure, pubClosed, nframes,
                 closes, headersSent, status, header>>

\* case data, ok := <-pubSub.pubChan, !ok
HubPubClosed ==
  /\ ~panicked
  /\ UNCHANGED call
  /\ pubChan # 0
  /\ pubChan \in pubClosed
  /\ stopChunker
  /\ stopSubscribers(subscribers)
  /\ panicked' = (stopChunkerPanics \/ stopSubscribersPanics(subscribers))
  /\ UNCHANGED <<subscribers, stopTimer, resp, stop, connects, bodyOpen,
                 readerVars, published, clientVars>>

\* case sub := <-pubSub.subChan
HubSubscribe(c) ==
  /\ ~panicked
  /\ UNCHANGED call
  /\ pc[c] = "subscribing"
  /\ \E ok \in BOOLEAN : doSubscribe(c, ok)
  /\ pc' = [pc EXCEPT ![c] = "recv"]
  /\ UNCHANGED <<stopTimer, rbody, rframe, failure, pubClosed, nframes,
                 published, received, headersSent, chunkOk, status, header>>

\* case sub := <-pubSub.unsubChan.  The deferred Unsubscribe then returns and
\* ServeHTTP ends: the subscriber and the request's locals are dropped.
HubUnsubscribe(c) ==
  /\ ~panicked
  /\ UNCHANGED call
  /\ pc[c] = "unsub"
  /\ doUnsubscribe(c)
  /\ pc' = [pc EXCEPT ![c] = "idle"]
  /\ closes' = [closes EXCEPT ![c] = 0]
  /\ received' = [received EXCEPT ![c] = <<>>]
  /\ headersSent' = [headersSent EXCEPT ![c] = FALSE]
  /\ chunkOk' = [chunkOk EXCEPT ![c] = FALSE]
  /\ status' = [status EXCEPT ![c] = "none"]
  /\ header' = [header EXCEPT ![c] = {}]
  /\ UNCHANGED <<pubChan, chunkerVars, readerVars, published, panicked>>

\* The expiry handler without the len(subscribers) == 0 test.
HubTimerAlwaysStops ==
  /\ ~panicked
  /\ UNCHANGED call
  /\ TimerPending(stopTimer)
  /\ stopTimer' = TimerDrain(stopTimer)
  /\ stopChunker
  /\ panicked' = stopChunkerPanics
  /\ UNCHANGED <<subscribers, resp, stop, connects, bodyOpen, readerVars,
                 published, closes, clientVars>>

\* case <-pubSub.stopTimer.C
HubTimer ==
  /\ ~panicked
  /\ UNCHANGED call
  /\ TimerPending(stopTimer)
  /\ stopTimer' = TimerDrain(stopTimer)
  /\ IF subscribers = {}
       THEN /\ stopChunker
            /\ panicked' = stopChunkerPanics
       ELSE UNCHANGED <<pubChan, stopCloses, panicked>>
  /\ UNCHANGED <<subscribers, resp, stop, connects, bodyOpen, readerVars,
                 published, closes, clientVars>>

\* The runtime timer expires after stopDelay.
TimerFire ==
  /\ ~panicked
  /\ UNCHANGED call
  /\ TimerActive(stopTimer)
  /\ stopTimer' = TimerExpire(stopTimer)
  /\ UNCHANGED <<subscribers, pubChan, chunkerVars, readerVars, published,
                 closes, clientVars, panicked>>

\* ------------------------------------------------------- Chunker.Start
\* body := chunker.resp.Body, read by the new goroutine without
\* synchronisation with later Connect() calls of the hub loop: it sees the
\* response of its own connection or the one written since.
ReaderInit(i) ==
  /\ ~panicked
  /\ UNCHANGED call
  /\ rpc[i] = "spawned"
  /\ \E b \in {i, resp} : rbody' = [rbody EXCEPT ![i] = b]
  /\ rpc' = [rpc EXCEPT ![i] = "read"]
  /\ UNCHANGED <<hubVars, chunkerVars, rframe, failure, pubClosed, nframes,
                 published, closes, clientVars, panicked>>

\* The loop left by break ChunkLoop: the deferred close(pubChan) runs first.
ReaderBreak(i, f) ==
  /\ failure' = [failure EXCEPT ![i] = f]
  /\ pubClosed' = pubClosed \cup {i}
  /\ rpc' = [rpc EXCEPT ![i] = "closing"]
  /\ UNCHANGED <<rframe, nframes>>

\* One iteration of ChunkLoop up to the send: NextPart/ReadAll/Close, the
\* zero-length test, and the stop check, which reads the field chunker.stop
\* racing with Connect() (it sees its own channel or the current one).
ReaderRead(i) ==
  /\ ~panicked
  /\ UNCHANGED call
  /\ rpc[i] = "read"
  /\ \/ ReaderBreak(i, "nil")                         \* io.EOF
     \/ ReaderBreak(i, "error")                       \* read error or size 0
     \/ \E ch \in {i, stop} :
          IF stopCloses[ch] > 0
            THEN ReaderBreak(i, "nil")                \* case <-chunker.stop
            ELSE /\ nframes < MaxFrames
                 /\ nframes' = nframes + 1
                 /\ rframe' = [rframe EXCEPT ![i] = nframes']
                 /\ rpc' = [rpc EXCEPT ![i] = "send"]
                 /\ UNCHANGED <<failure, pubClosed>>
  /\ UNCHANGED <<hubVars, chunkerVars, rbody, published, closes, clientVars,
                 panicked>>

\* The deferred body.Close(); the goroutine ends and its locals are dropped.
ReaderClose(i) ==
  /\ ~panicked
  /\ UNCHANGED call
  /\ rpc[i] = "closing"
  /\ bodyOpen' = bodyOpen \ {rbody[i]}
  /\ rpc' = [rpc EXCEPT ![i] = "exited"]
  /\ rbody' = [rbody EXCEPT ![i] = 0]
  /\ failure' = [failure EXCEPT ![i] = "nil"]
  /\ UNCHANGED <<hubVars, resp, stop, stopCloses, connects, rframe,
                 pubClosed, nframes, published, closes, clientVars,
                 panicked>>

\* ---------------------------------------------------- PubSub.ServeHTTP
Methods == {"GET", "HEAD", "POST"}
\* http.Error sets the content type of its plain-text body.
TextPlain == <<"Content-Type", "text/plain; charset=utf-8">>
Multipart == <<"Content-Type", "multipart/x-mixed-replace">>

\* A GET request: NewSubscriber (a fresh open channel, fresh locals), then
\* pubSub.Subscribe(sub) blocks until the hub loop takes it.
Request(c) ==
  /\ ~panicked
  /\ UNCHANGED call
  /\ pc[c] = "idle"
  /\ pc' = [pc EXCEPT ![c] = "subscribing"]
  /\ UNCHANGED <<hubVars, chunkerVars, readerVars, published, closes, received,
                 headersSent, chunkOk, status, header, panicked>>

\* ServeHTTP without the method test: the request goes on to subscribe.
MethodNotAllowedSubscribes(c) ==
  /\ ~panicked
  /\ UNCHANGED call
  /\ pc[c] = "idle"
  /\ pc' = [pc EXCEPT ![c] = "subscribing"]
  /\ UNCHANGED <<hubVars, chunkerVars, readerVars, published, closes, received,
                 headersSent, chunkOk, status, header, panicked>>

\* A request with another method: 405 with an Allow header, and return.
MethodNotAllowed(c) ==
  /\ ~panicked
  /\ UNCHANGED call
  /\ pc[c] = "idle"
  /\ \E m \in Methods \ {"GET", "HEAD"} :
       /\ status' = [status EXCEPT ![c] = "405"]
       /\ header' = [header EXCEPT ![c] = {<<"Allow", "GET, HEAD">>, TextPlain}]
  /\ pc' = [pc EXCEPT ![c] = "rejected"]
  /\ UNCHANGED <<hubVars, chunkerVars, readerVars, published, closes, received,
                 headersSent, chunkOk, panicked>>

\* The rejected request is over: its response is dropped.
MethodNotAllowedReturn(c) ==
  /\ ~panicked
  /\ UNCHANGED call
  /\ pc[c] = "rejected"
  /\ pc' = [pc EXCEPT ![c] = "idle"]
  /\ status' = [status EXCEPT ![c] = "none"]
  /\ header' = [header EXCEPT ![c] = {}]
  /\ UNCHANGED <<hubVars, chunkerVars, readerVars, published, closes, received,
                 headersSent, chunkOk, panicked>>

\* The code after LOOP without the !headersSent test: 503 whenever chunkOk
\* is false.
LoopExitNoHeaderTest(c, ok) ==
  /\ chunkOk' = [chunkOk EXCEPT ![c] = ok]
  /\ status' = [status EXCEPT ![c] = IF ~ok THEN "503" ELSE status[c]]
  /\ header' = [header EXCEPT ![c] = IF ~ok THEN {TextPlain} ELSE header[c]]
  /\ pc' = [pc EXCEPT ![c] = "unsub"]
  /\ UNCHANGED <<received, headersSent>>

\* The code after LOOP: 503 when no header was sent and chunkOk is false;
\* then the deferred Unsubscribe blocks until the hub loop takes it.
LoopExit(c, ok) ==
  /\ chunkOk' = [chunkOk EXCEPT ![c] = ok]
  /\ status' = [status EXCEPT ![c] =
                  IF ~headersSent[c] /\ ~ok THEN "503" ELSE status[c]]
  /\ header' = [header EXCEPT ![c] =
                  IF ~headersSent[c] /\ ~ok THEN {TextPlain} ELSE header[c]]
  /\ pc' = [pc EXCEPT ![c] = "unsub"]
  /\ UNCHANGED <<received, headersSent>>

\* case data, chunkOk = <-sub.ChunkChannel with the channel closed
ClientRecvClosed(c) ==
  /\ ~panicked
  /\ UNCHANGED call
  /\ pc[c] = "recv"
  /\ closes[c] > 0
  /\ LoopExit(c, FALSE)
  /\ UNCHANGED <<hubVars, chunkerVars, readerVars, published, closes, panicked>>

\* case <-r.Context().Done(): the client went away
ClientCtxDone(c) ==
  /\ ~panicked
  /\ UNCHANGED call
  /\ pc[c] = "recv"
  /\ LoopExit(c, chunkOk[c])
  /\ UNCHANGED <<hubVars, chunkerVars, readerVars, published, closes, panicked>>

\* ServeHTTP without the deferred Unsubscribe on the error returns: a create
\* or write error ends the request at once.
ClientWriteNoDefer(c) ==
  /\ ~panicked
  /\ UNCHANGED call
  /\ pc[c] = "write"
  /\ \E werr \in BOOLEAN :
       IF werr
         THEN /\ pc' = [pc EXCEPT ![c] = "idle"]
              /\ headersSent' = [headersSent EXCEPT ![c] = FALSE]
              /\ status' = [status EXCEPT ![c] = "none"]
              /\ header' = [header EXCEPT ![c] = {}]
              /\ received' = [received EXCEPT ![c] = <<>>]
              /\ chunkOk' = [chunkOk EXCEPT ![c] = FALSE]
         ELSE /\ pc' = [pc EXCEPT ![c] = "recv"]
              /\ headersSent' = [headersSent EXCEPT ![c] = TRUE]
              /\ status' = [status EXCEPT ![c] = IF headersSent[c] THEN status[c] ELSE "200"]
              /\ header' = [header EXCEPT ![c] =
                              IF headersSent[c] THEN header[c] ELSE header[c] \cup {Multipart}]
              /\ UNCHANGED <<received, chunkOk>>
  /\ UNCHANGED <<hubVars, chunkerVars, readerVars, published, closes, panicked>>

\* After a frame was received: headers before the first chunk, CreatePart,
\* part.Write, Flush.  A create or write error returns.
ClientWrite(c) ==
  /\ ~panicked
  /\ UNCHANGED call
  /\ pc[c] = "write"
  /\ headersSent' = [headersSent EXCEPT ![c] = TRUE]
  /\ status' = [status EXCEPT ![c] = IF headersSent[c] THEN status[c] ELSE "200"]
  /\ header' = [header EXCEPT ![c] =
                  IF headersSent[c] THEN header[c] ELSE header[c] \cup {Multipart}]
  /\ \E werr \in BOOLEAN : pc' = [pc EXCEPT ![c] = IF werr THEN "unsub" ELSE "recv"]
  /\ UNCHANGED <<hubVars, chunkerVars, readerVars, published, closes, received,
                 chunkOk, panicked>>

\* ------------------------------------------------------------ the system
\* A runtime panic (close of a closed or nil channel, send on a closed
\* channel) kills the process: every action requires ~panicked.
HubStep ==
  \/ HubPublish
  \/ HubPubClosed
  \/ HubTimer
  \/ \E c \in Clients : HubSubscribe(c)
  \/ \E c \in Clients : HubUnsubscribe(c)

ReaderStep ==
  \/ \E i \in Conns : ReaderInit(i)
  \/ \E i \in Conns : ReaderRead(i)
  \/ \E i \in Conns : ReaderClose(i)

ClientStep ==
  \/ \E c \in Clients : Request(c)
  \/ \E c \in Clients : MethodNotAllowed(c)
  \/ \E c \in Clients : MethodNotAllowedReturn(c)
  \/ \E c \in Clients : ClientRecvClosed(c)
  \/ \E c \in Clients : ClientCtxDone(c)
  \/ \E c \in Clients : ClientWrite(c)

Next ==
  \/ HubPublish
  \/ HubPubClosed
  \/ HubTimer
  \/ \E c \in Clients : HubSubscribe(c)
  \/ \E c \in Clients : HubUnsubscribe(c)
  \/ TimerFire
  \/ \E i \in Conns : ReaderInit(i)
  \/ \E i \in Conns : ReaderRead(i)
  \/ \E i \in Conns : ReaderClose(i)
  \/ \E c \in Clients : Request(c)
  \/ \E c \in Clients : MethodNotAllowed(c)
  \/ \E c \in Clients : MethodNotAllowedReturn(c)
  \/ \E c \in Clients : ClientRecvClosed(c)
  \/ \E c \in Clients : ClientCtxDone(c)
  \/ \E c \in Clients : ClientWrite(c)

Spec == Init /\ [][Next]_vars

\* The scheduling the program runs under: the hub loop's select takes a ready
\* case at random, so a case that stays ready is taken; a goroutine that can
\* run does run; the runtime delivers a due expiry; a network read or write
\* in flight completes.  Nothing is assumed about when requests arrive or
\* clients go away.
Fairness ==
  /\ WF_vars(HubPublish)
  /\ WF_vars(HubPubClosed)
  /\ WF_vars(HubTimer)
  /\ \A c \in Clients : WF_vars(HubSubscribe(c))
  /\ \A c \in Clients : WF_vars(HubUnsubscribe(c))
  /\ WF_vars(TimerFire)
  /\ \A i \in Conns : WF_vars(ReaderInit(i))
  /\ \A i \in Conns : WF_vars(ReaderRead(i))
  /\ \A i \in Conns : WF_vars(ReaderClose(i))
  /\ \A c \in Clients : WF_vars(MethodNotAllowedReturn(c))
  /\ \A c \in Clients : WF_vars(ClientRecvClosed(c))
  /\ \A c \in Clients : WF_vars(ClientWrite(c))

FairSpec == Spec /\ Fairness

\* ================================================= functions called alone
\* ----------------------------------------------------------------- strings
\* A string is the sequence of its tokens: each character of Special is a
\* token of its own, and every maximal run of other characters is one token
\* (a word).  The operators below are the strings package functions the
\* program calls, on that representation.
Special == {" ", ";", ",", "=", "\"", "/", ":"}

\* strings.HasPrefix, strings.TrimPrefix
HasPrefix(s, prefix) ==
  Len(s) >= Len(prefix) /\ SubSeq(s, 1, Len(prefix)) = prefix
TrimPrefix(s, prefix) ==
  IF HasPrefix(s, prefix) THEN SubSeq(s, Len(prefix) + 1, Len(s)) ELSE s

\* strings.Trim(s, cutset), strings.TrimSpace
RECURSIVE TrimLeft(_, _)
TrimLeft(s, cutset) ==
  IF s # <<>> /\ Head(s) \in cutset THEN TrimLeft(Tail(s), cutset) ELSE s
RECURSIVE TrimRight(_, _)
TrimRight(s, cutset) ==
  IF s # <<>> /\ Last(s) \in cutset
    THEN TrimRight(SubSeq(s, 1, Len(s) - 1), cutset)
    ELSE s
Trim(s, cutset) == TrimRight(TrimLeft(s, cutset), cutset)
TrimSpace(s) == Trim(s, {" "})

\* Position of the first sep in s, 0 if there is none.
Index(s, sep) ==
  IF \E i \in 1..Len(s) : s[i] = sep
    THEN CHOOSE i \in 1..Len(s) : s[i] = sep /\ \A j \in 1..(i - 1) : s[j] # sep
    ELSE 0

\* strings.Split(s, sep): the pieces of s between the occurrences of sep.
RECURSIVE Split(_, _)
Split(s, sep) ==
  IF Index(s, sep) = 0
    THEN <<s>>
    ELSE <<SubSeq(s, 1, Index(s, sep) - 1)>>
           \o Split(SubSeq(s, Index(s, sep) + 1, Len(s)), sep)

\* strings.SplitN(s, sep, 2): s cut at the first sep, one piece if none.
SplitN2(s, sep) ==
  IF Index(s, sep) = 0
    THEN <<s>>
    ELSE <<SubSeq(s, 1, Index(s, sep) - 1),
           SubSeq(s, Index(s, sep) + 1, Len(s))>>

\* A Go map[string]string: m[k] of a missing key is "".
EmptyMap == [k \in {} |-> <<>>]
MapPut(m, k, v) == [x \in DOMAIN m \cup {k} |-> IF x = k THEN v ELSE m[x]]
MapGet(m, k) == IF k \in DOMAIN m THEN m[k] ELSE <<>>

\* ----------------------------------------------------------- Chunker.Connect
\* parseMediaType: the media type and the parameters of a Content-Type value.
RECURSIVE parseParams(_, _)
parseParams(pieces, params) ==
  IF pieces = <<>> THEN params
  ELSE LET part == TrimSpace(Head(pieces))
           kv == SplitN2(part, "=")
           k == kv[1]
           v == IF Len(kv) > 1 THEN kv[2] ELSE <<>>
           unquoted == IF Len(v) > 1 /\ v[1] = "\"" /\ v[Len(v)] = "\""
                         THEN SubSeq(v, 2, Len(v) - 1)
                         ELSE v
       IN parseParams(Tail(pieces), MapPut(params, k, unquoted))

parseMediaType(contentType) ==
  LET pieces == Split(contentType, ";")
  IN [mediaType |-> TrimSpace(pieces[1]),
      params |-> parseParams(Tail(pieces), EmptyMap)]

\* getBoundary without the test for an empty boundary.
getBoundaryAllowsEmpty(response) ==
  LET parsed == parseMediaType(response.contentType)
  IN IF ~HasPrefix(parsed.mediaType, <<"multipart", "/">>)
       THEN [boundary |-> <<>>, err |-> "unexpected media type"]
       ELSE [boundary |-> MapGet(parsed.params, <<"boundary">>), err |-> "nil"]

\* getBoundary: the boundary parameter of a multipart response, or an error.
getBoundary(response) ==
  LET parsed == parseMediaType(response.contentType)
      boundary == MapGet(parsed.params, <<"boundary">>)
  IN IF ~HasPrefix(parsed.mediaType, <<"multipart", "/">>)
       THEN [boundary |-> <<>>, err |-> "unexpected media type"]
     ELSE IF boundary = <<>>
       THEN [boundary |-> <<>>, err |-> "boundary not found"]
     ELSE [boundary |-> boundary, err |-> "nil"]

\* basicAuthEnabled that does not look at the digest flag.
basicAuthEnabledIgnoresDigest(chunker) ==
  chunker.username # <<>> /\ chunker.password # <<>>

basicAuthEnabled(chunker) ==
  chunker.username # <<>> /\ chunker.password # <<>> /\ ~chunker.digest
digestAuthEnabled(chunker) ==
  chunker.username # <<>> /\ chunker.password # <<>> /\ chunker.digest

\* http.Request.SetBasicAuth: the Authorization value of Basic authentication.
BasicAuth(username, password) ==
  <<"Basic", " ", "base64(">> \o username \o <<":">> \o password \o <<")">>

\* digestAuthRequested that does not look at the status.
digestAuthRequestedAnyStatus(response) ==
  HasPrefix(response.wwwAuthenticate, <<"Digest", " ">>)

\* digestAuthRequested: a 401 whose WWW-Authenticate starts with "Digest ".
digestAuthRequested(response) ==
  response.status = 401 /\ HasPrefix(response.wwwAuthenticate, <<"Digest", " ">>)

\* md5 followed by %x formatting, kept symbolic: different strings have
\* different digests.
Md5Hex(s) == <<"md5(">> \o s \o <<")">>

\* The loop of digestAuthBuild keeping the quotes around each value.
RECURSIVE digestAuthItemsKeepQuotes(_, _)
digestAuthItemsKeepQuotes(parts, acc) ==
  IF parts = <<>> \/ acc.panic THEN acc
  ELSE LET kv == SplitN2(TrimSpace(Head(parts)), "=")
       IN IF Len(kv) < 2
            THEN [acc EXCEPT !.panic = TRUE]
            ELSE digestAuthItemsKeepQuotes(Tail(parts),
                   [authMap |-> MapPut(acc.authMap, kv[1], kv[2]),
                    authQop |-> acc.authQop \/ (kv[1] = <<"qop">> /\ kv[2] = <<"\"", "auth", "\"">>),
                    panic |-> FALSE])

\* The loop of digestAuthBuild over the items of the challenge: authMap and
\* authQop, or the index-out-of-range panic of kv[1] on an item without "=".
RECURSIVE digestAuthItems(_, _)
digestAuthItems(parts, acc) ==
  IF parts = <<>> \/ acc.panic THEN acc
  ELSE LET kv == SplitN2(TrimSpace(Head(parts)), "=")
       IN IF Len(kv) < 2
            THEN [acc EXCEPT !.panic = TRUE]
            ELSE LET key == kv[1]
                     val == Trim(kv[2], {"\""})
                     qops == Split(val, ",")
                     auth == /\ key = <<"qop">>
                             /\ \E i \in 1..Len(qops) : qops[i] = <<"auth">>
                 IN digestAuthItems(Tail(parts),
                      [authMap |-> MapPut(acc.authMap, key, val),
                       authQop |-> acc.authQop \/ auth,
                       panic |-> FALSE])

Quoted(key, val) == <<key, "=", "\"">> \o val \o <<"\"">>
Unquoted(key, val) == <<key, "=">> \o val

\* digestAuthBuild: the value of the Authorization header (after "Digest ")
\* for the challenge of response; cnonce is the random client nonce.
digestAuthBuild(username, password, uri, response, cnonce) ==
  LET auth == TrimPrefix(response.wwwAuthenticate, <<"Digest", " ">>)
      items == digestAuthItems(Split(auth, ","),
                 [authMap |-> EmptyMap, authQop |-> FALSE, panic |-> FALSE])
      realm == MapGet(items.authMap, <<"realm">>)
      nonce == MapGet(items.authMap, <<"nonce">>)
      nc == <<"00000001">>
      h1hex == Md5Hex(username \o <<":">> \o realm \o <<":">> \o password)
      h2hex == Md5Hex(<<"GET", ":">> \o uri)
      a == h1hex \o <<":">> \o nonce \o <<":">>
             \o (IF items.authQop
                   THEN nc \o <<":">> \o cnonce \o <<":", "auth", ":">>
                   ELSE <<>>)
             \o h2hex
      digest == Md5Hex(a)
      result == Quoted("username", username) \o <<",", " ">>
                  \o Quoted("realm", realm) \o <<",", " ">>
                  \o Quoted("nonce", nonce) \o <<",", " ">>
                  \o Quoted("response", digest) \o <<",", " ">>
                  \o Quoted("uri", uri)
      withQop == IF items.authQop
                   THEN result \o <<",", " ">> \o Unquoted("nc", nc)
                          \o <<",", " ">> \o Quoted("cnonce", cnonce)
                          \o <<",", " ">> \o Unquoted("qop", <<"auth">>)
                          \o <<",", " ">> \o Unquoted("algorithm", <<"MD5">>)
                   ELSE result
      withOpaque == IF <<"opaque">> \in DOMAIN items.authMap
                      THEN withQop \o <<",", " ">>
                             \o Quoted("opaque", items.authMap[<<"opaque">>])
                      ELSE withQop
  IN IF items.panic
       THEN [panic |-> TRUE, value |-> <<>>]
       ELSE [panic |-> FALSE, value |-> withOpaque]

\* The end of Connect, from the status test on: response n ("first" or
\* "second") is the final one, requests were sent and the bodies in closed were closed.
ConnectFinish(chunker, response, n, requests, closed) ==
  IF response.status # 200
    THEN [err |-> "request failed", panic |-> FALSE, requests |-> requests,
          closed |-> closed \cup {n}, resp |-> chunker.resp,
          boundary |-> chunker.boundary, stop |-> chunker.stop]
  ELSE IF getBoundary(response).err # "nil"
    THEN [err |-> getBoundary(response).err, panic |-> FALSE,
          requests |-> requests, closed |-> closed \cup {n},
          resp |-> chunker.resp, boundary |-> chunker.boundary,
          stop |-> chunker.stop]
  ELSE [err |-> "nil", panic |-> FALSE, requests |-> requests,
        closed |-> closed, resp |-> n,
        boundary |-> getBoundary(response).boundary, stop |-> "open"]

\* Chunker.Connect as a function of the chunker's fields and of what the
\* network answers to the first and to the second client.Do: the requests
\* sent, the response bodies closed, the error returned and the fields
\* resp, boundary and stop afterwards.
ChunkerConnect(chunker, replies, cnonce) ==
  LET request == [authorization |->
                    IF basicAuthEnabled(chunker)
                      THEN BasicAuth(chunker.username, chunker.password)
                      ELSE <<>>]
      digestAuth == digestAuthBuild(chunker.username, chunker.password,
                                    chunker.uri, replies[1], cnonce)
      retry == [authorization |-> <<"Digest", " ">> \o digestAuth.value]
  IN IF replies[1].failed
       THEN [err |-> "do", panic |-> FALSE, requests |-> <<request>>,
             closed |-> {}, resp |-> chunker.resp,
             boundary |-> chunker.boundary, stop |-> chunker.stop]
     ELSE IF digestAuthEnabled(chunker) /\ digestAuthRequested(replies[1])
       THEN IF digestAuth.panic
              THEN [err |-> "nil", panic |-> TRUE, requests |-> <<request>>,
                    closed |-> {"first"}, resp |-> chunker.resp,
                    boundary |-> chunker.boundary, stop |-> chunker.stop]
            ELSE IF replies[2].failed
              THEN [err |-> "do", panic |-> FALSE,
                    requests |-> <<request, retry>>, closed |-> {"first"},
                    resp |-> chunker.resp, boundary |-> chunker.boundary,
                    stop |-> chunker.stop]
            ELSE ConnectFinish(chunker, replies[2], "second", <<request, retry>>,
                               {"first"})
     ELSE ConnectFinish(chunker, replies[1], "first", <<request>>, {})

\* ------------------------------------------------------------------ inputs
\* Content-Type values an upstream may send.
ContentTypes ==
  { <<"multipart", "/", "x-mixed-replace", ";", "boundary", "=", "myboundary">>,
    <<"multipart", "/", "x-mixed-replace", ";", " ", "boundary", "=",
      "\"", "myboundary", "\"">>,
    <<"multipart", "/", "x-mixed-replace">>,
    <<"multipart", "/", "x-mixed-replace", ";", "boundary", "=">>,
    <<"multipart", "/", "x-mixed-replace", ";", "boundary", "=", "\"", "\"">>,
    <<"image", "/", "jpeg">>,
    <<"image", "/", "jpeg", ";", "boundary", "=", "myboundary">>,
    <<>> }

\* WWW-Authenticate values an upstream may send.
GoodChallenges ==
  { <<"Digest", " ", "realm", "=", "\"", "cam", "\"", ",", " ",
      "nonce", "=", "\"", "abc", "\"">>,
    <<"Digest", " ", "realm", "=", "\"", "cam", "\"", ",", " ",
      "nonce", "=", "\"", "abc", "\"", ",", " ", "qop", "=", "\"", "auth", "\"",
      ",", " ", "opaque", "=", "\"", "xyz", "\"">> }
NoRealm == <<"Digest", " ", "nonce", "=", "\"", "abc", "\"">>
NoNonce == <<"Digest", " ", "realm", "=", "\"", "cam", "\"">>
NotKeyValue ==
  { <<"Digest", " ", "realm", "=", "\"", "cam", "\"", ",", " ",
      "nonce", "=", "\"", "abc", "\"", ",", " ", "stale">>,
    <<"Digest", " ">> }
\* Well-formed challenges beside GoodChallenges: an opaque without qop, an
\* unquoted qop, a qop other than auth, and the qop list of the RFC 2617
\* example.
MoreChallenges ==
  { <<"Digest", " ", "realm", "=", "\"", "cam", "\"", ",", " ",
      "nonce", "=", "\"", "abc", "\"", ",", " ", "opaque", "=", "\"", "xyz", "\"">>,
    <<"Digest", " ", "realm", "=", "\"", "cam", "\"", ",", " ",
      "nonce", "=", "\"", "abc", "\"", ",", " ", "qop", "=", "auth">>,
    <<"Digest", " ", "realm", "=", "\"", "cam", "\"", ",", " ",
      "nonce", "=", "\"", "abc", "\"", ",", " ",
      "qop", "=", "\"", "auth-int", "\"">> }
QopList ==
  <<"Digest", " ", "realm", "=", "\"", "cam", "\"", ",", " ",
    "nonce", "=", "\"", "abc", "\"", ",", " ",
    "qop", "=", "\"", "auth", ",", "auth-int", "\"">>
Challenges ==
  GoodChallenges \cup MoreChallenges \cup {QopList, NoRealm, NoNonce}
    \cup NotKeyValue
OtherAuthenticate == { <<>>, <<"Basic", " ", "realm", "=", "\"", "cam", "\"">> }

\* What client.Do returns: a transport error or a response.
DoFailed == [failed |-> TRUE, status |-> 0, wwwAuthenticate |-> <<>>,
             contentType |-> <<>>]
Response(code, challenge, mediaType) ==
  [failed |-> FALSE, status |-> code, wwwAuthenticate |-> challenge,
   contentType |-> mediaType]
FirstReplies ==
  {DoFailed} \cup
  { Response(s, w, t) :
      s \in {200, 401, 404},
      w \in OtherAuthenticate \cup GoodChallenges \cup {NoNonce}
              \cup {<<"Digest", " ">>},
      t \in ContentTypes }
SecondReplies ==
  {DoFailed} \cup { Response(s, <<>>, t) : s \in {200, 401, 404}, t \in ContentTypes }

\* The chunker Connect() is called on: its configuration, and the fields
\* left by no earlier Connect() or by an earlier one followed by Stop().
Credentials ==
  { [username |-> <<>>, password |-> <<>>, digest |-> FALSE],
    [username |-> <<"admin">>, password |-> <<"secret">>, digest |-> FALSE],
    [username |-> <<"admin">>, password |-> <<"secret">>, digest |-> TRUE],
    [username |-> <<"admin">>, password |-> <<>>, digest |-> TRUE] }
Chunkers ==
  { [username |-> k.username, password |-> k.password, digest |-> k.digest,
     uri |-> <<"/", "video">>, resp |-> f.resp, boundary |-> f.boundary,
     stop |-> f.stop] :
      k \in Credentials,
      f \in { [resp |-> "nil", boundary |-> <<>>, stop |-> "nil"],
              [resp |-> "earlier", boundary |-> <<"earlier">>, stop |-> "closed"] } }
Cnonce == <<"0123456789abcdef">>

ConnectCalls ==
  { [fn |-> "Connect", args |-> <<k, <<r1, r2>>, Cnonce>>, returned |-> FALSE,
     out |-> <<>>] : k \in Chunkers, r1 \in FirstReplies, r2 \in SecondReplies }

\* ------------------------------------------------------------- Chunker.Start
\* What happens to a reader goroutine, in order: "tick" is an expiry of its
\* ticker, "stop" a Stop() call, and the others are what the next read of
\* the body gives: "frame" a non-empty part, "empty" a part of length 0,
\* "eof" the end of the body, "err" a read or decode error.
MaxEvents == 4
Events == {"tick", "stop", "frame", "empty", "eof", "err"}
EventSeqs == UNION { [1..n -> Events] : n \in 0..MaxEvents }

\* One turn of ChunkLoop (or one event beside it) in state s at position k.
StartStep(rate, s, k, event) ==
  IF s.exited THEN s
  ELSE IF event = "tick"
    THEN [s EXCEPT !.tick = (rate > 0)]
  ELSE IF event = "stop"
    THEN [s EXCEPT !.stopped = TRUE]
  ELSE IF event = "eof"
    THEN [s EXCEPT !.exited = TRUE]
  ELSE IF event = "err"
    THEN [s EXCEPT !.exited = TRUE, !.failure = "read error"]
  ELSE IF event = "empty"
    THEN [s EXCEPT !.exited = TRUE,
                   !.failure = "received final chunk of size 0"]
  ELSE IF s.stopped
    THEN [s EXCEPT !.exited = TRUE]
  ELSE IF ~s.firstFrame /\ rate > 0
    THEN IF s.tick
           THEN [s EXCEPT !.tick = FALSE, !.delivered = Append(@, k)]
           ELSE s
  ELSE [s EXCEPT !.firstFrame = FALSE, !.delivered = Append(@, k)]

\* Chunker.Start on a response body, every send on pubChan being taken by
\* the hub: the positions of the frames delivered, whether the loop was
\* left, and the failure logged at the end ("nil": logged as stopped).
RECURSIVE StartFrom(_, _, _, _)
StartFrom(rate, events, k, s) ==
  IF k > Len(events) THEN s
  ELSE StartFrom(rate, events, k + 1, StartStep(rate, s, k, events[k]))

ChunkerStart(rate, events) ==
  StartFrom(rate, events, 1,
            [firstFrame |-> TRUE, tick |-> FALSE, stopped |-> FALSE,
             exited |-> FALSE, failure |-> "nil", delivered |-> <<>>])

StartCalls ==
  { [fn |-> "Start", args |-> <<rate, events>>, returned |-> FALSE,
     out |-> <<>>] : rate \in {0, 5}, events \in EventSeqs }

CallStart ==
  /\ call.fn = "Start" /\ ~call.returned
  /\ call' = [call EXCEPT !.returned = TRUE,
                          !.out = ChunkerStart(call.args[1], call.args[2])]
  /\ UNCHANGED <<hubVars, chunkerVars, readerVars, clientVars, published,
                 closes, panicked>>

\* ----------------------------------------------------------- client address
\* net.ParseIP followed by IP.String() on the addresses used below: the
\* canonical text of an IP address, <<>> (nil) for anything else.
IPText ==
  { <<"10.0.0.1">>, <<"192.0.2.7">>, <<"203.0.113.9">>,
    <<":", ":", "ffff", ":", "192.0.2.7">> }
ParseIP(s) ==
  IF s \notin IPText THEN <<>>
  ELSE IF s = <<":", ":", "ffff", ":", "192.0.2.7">> THEN <<"192.0.2.7">>
  ELSE s

\* net.SplitHostPort of an IPv4 "host:port".
SplitHostPort(addr) ==
  IF Len(SplitN2(addr, ":")) = 2
    THEN [host |-> SplitN2(addr, ":")[1], port |-> SplitN2(addr, ":")[2]]
    ELSE [host |-> <<>>, port |-> <<>>]

\* The first entry of hosts that parses as an IP address, <<>> if none.
RECURSIVE FirstValid(_)
FirstValid(hosts) ==
  IF hosts = <<>> THEN <<>>
  ELSE IF ParseIP(Head(hosts)) # <<>> THEN ParseIP(Head(hosts))
  ELSE FirstValid(Tail(hosts))

\* GetClientAddr that takes the headers whatever trustProxy says.
GetClientAddrAlwaysTrusts(trustProxy, r) ==
  LET remoteHost == ParseIP(SplitHostPort(r.remoteAddr).host)
      remotePort == IF Len(SplitHostPort(r.remoteAddr).port) > 0
                      THEN <<":">> \o SplitHostPort(r.remoteAddr).port
                      ELSE <<>>
      headerIP == ParseIP(r.xRealIP)
      host == FirstValid(Split(r.xForwardedFor, ","))
  IN IF headerIP # <<>>
       THEN IF headerIP = remoteHost THEN headerIP \o remotePort ELSE headerIP
     ELSE IF host # <<>>
       THEN IF host = remoteHost THEN host \o remotePort ELSE host
     ELSE remoteHost \o remotePort

\* GetClientAddr: the address a subscriber is registered under.
GetClientAddr(trustProxy, r) ==
  LET remoteHost == ParseIP(SplitHostPort(r.remoteAddr).host)
      remotePort == IF Len(SplitHostPort(r.remoteAddr).port) > 0
                      THEN <<":">> \o SplitHostPort(r.remoteAddr).port
                      ELSE <<>>
      headerIP == ParseIP(r.xRealIP)
      host == FirstValid(Split(r.xForwardedFor, ","))
  IN IF ~trustProxy THEN r.remoteAddr
     ELSE IF headerIP # <<>>
       THEN IF headerIP = remoteHost THEN headerIP \o remotePort ELSE headerIP
     ELSE IF host # <<>>
       THEN IF host = remoteHost THEN host \o remotePort ELSE host
     ELSE remoteHost \o remotePort

\* clientAddress: the first entry of the configured header if there is one,
\* clientHeader being "" (<<>>), "X-Real-IP" or "X-Forwarded-For".
clientAddress(clientHeader, r) ==
  LET value == IF clientHeader = <<"X-Real-IP">> THEN r.xRealIP
               ELSE IF clientHeader = <<"X-Forwarded-For">> THEN r.xForwardedFor
               ELSE <<>>
      hosts == Split(value, ",")
  IN IF clientHeader # <<>> /\ hosts[1] # <<>> THEN hosts[1] ELSE r.remoteAddr

\* Requests: the peer address set by the HTTP server and the two headers as
\* the client or a proxy sent them (<<>>: header absent).
Requests ==
  { [remoteAddr |-> a, xRealIP |-> x, xForwardedFor |-> f] :
      a \in { <<"10.0.0.1", ":", "4711">>, <<"192.0.2.7", ":", "80">> },
      x \in { <<>>, <<"192.0.2.7">>, <<"10.0.0.1">>, <<"not-an-ip">>,
              <<":", ":", "ffff", ":", "192.0.2.7">> },
      f \in { <<>>, <<"203.0.113.9">>, <<"10.0.0.1">>,
              <<"203.0.113.9", ",", " ", "192.0.2.7">>,
              <<"unknown", ",", "203.0.113.9">>,
              <<"unknown", ",", " ", "203.0.113.9">> } }

AddrCalls ==
  { [fn |-> "GetClientAddr", args |-> <<t, r>>, returned |-> FALSE,
     out |-> <<>>] : t \in BOOLEAN, r \in Requests }
  \cup
  { [fn |-> "clientAddress", args |-> <<h, r>>, returned |-> FALSE,
     out |-> <<>>] :
      h \in { <<>>, <<"X-Real-IP">>, <<"X-Forwarded-For">> }, r \in Requests }

CallGetClientAddr ==
  /\ call.fn = "GetClientAddr" /\ ~call.returned
  /\ call' = [call EXCEPT !.returned = TRUE,
                          !.out = GetClientAddr(call.args[1], call.args[2])]
  /\ UNCHANGED <<hubVars, chunkerVars, readerVars, clientVars, published,
                 closes, panicked>>

CallClientAddress ==
  /\ call.fn = "clientAddress" /\ ~call.returned
  /\ call' = [call EXCEPT !.returned = TRUE,
                          !.out = clientAddress(call.args[1], call.args[2])]
  /\ UNCHANGED <<hubVars, chunkerVars, readerVars, clientVars, published,
                 closes, panicked>>

\* --------------------------------------------------------------- NewChunker
\* Words that are a URI scheme (a letter followed by letters, digits, "+",
\* "-" or "."), with the lower-case form url.Parse stores.
SchemeWords == {"http", "https", "HTTP", "cam"}
ToLower(word) == IF word = "HTTP" THEN "http" ELSE word

\* url.Parse: the scheme ("" if there is none) and the rest, or an error.
\* A string starting with ":" has no scheme to the left of the colon; a
\* string without scheme whose first path segment holds a colon is refused.
urlParse(source) ==
  IF Len(source) >= 2 /\ source[1] \in SchemeWords /\ source[2] = ":"
    THEN [err |-> "nil", scheme |-> ToLower(source[1]),
          rest |-> SubSeq(source, 3, Len(source))]
  ELSE IF source # <<>> /\ source[1] = ":"
    THEN [err |-> "missing protocol scheme", scheme |-> "", rest |-> <<>>]
  ELSE IF Index(source, ":") # 0
          /\ (Index(source, "/") = 0 \/ Index(source, ":") < Index(source, "/"))
    THEN [err |-> "first path segment in URL cannot contain colon",
          scheme |-> "", rest |-> <<>>]
  ELSE [err |-> "nil", scheme |-> "", rest |-> source]

\* URL.IsAbs
IsAbs(u) == u.scheme # ""

NoChunker == [id |-> <<>>, source |-> [scheme |-> "", rest |-> <<>>],
              username |-> <<>>, password |-> <<>>, digest |-> FALSE,
              rate |-> 0]

\* NewChunker without the test for an absolute URI.
NewChunkerAnyURI(id, source, username, password, digest, rate) ==
  IF urlParse(source).err # "nil"
    THEN [err |-> urlParse(source).err, made |-> FALSE, chunker |-> NoChunker,
          requests |-> <<>>]
  ELSE [err |-> "nil", made |-> TRUE,
        chunker |-> [id |-> id,
                     source |-> [scheme |-> urlParse(source).scheme,
                                 rest |-> urlParse(source).rest],
                     username |-> username, password |-> password,
                     digest |-> digest, rate |-> rate],
        requests |-> <<>>]

\* NewChunker: the reader for a source URI, or an error and no reader
\* (made is false: the returned pointer is nil); requests are the HTTP
\* requests sent meanwhile.
NewChunker(id, source, username, password, digest, rate) ==
  IF urlParse(source).err # "nil"
    THEN [err |-> urlParse(source).err, made |-> FALSE, chunker |-> NoChunker,
          requests |-> <<>>]
  ELSE IF ~IsAbs(urlParse(source))
    THEN [err |-> "uri is not absolute", made |-> FALSE,
          chunker |-> NoChunker, requests |-> <<>>]
  ELSE [err |-> "nil", made |-> TRUE,
        chunker |-> [id |-> id,
                     source |-> [scheme |-> urlParse(source).scheme,
                                 rest |-> urlParse(source).rest],
                     username |-> username, password |-> password,
                     digest |-> digest, rate |-> rate],
        requests |-> <<>>]

Sources ==
  { <<"http", ":", "/", "/", "cam", "/", "video">>,
    <<"HTTP", ":", "/", "/", "cam", "/", "video">>,
    <<"https", ":", "/", "/", "cam">>,
    <<"cam", ":", "8080", "/", "video">>,
    <<"/", "/", "cam", "/", "video">>,
    <<"/", "video">>,
    <<"cam", "/", "video">>,
    <<"video">>,
    <<"1cam", ":", "8080">>,
    <<":", "/", "/", "cam">>,
    <<>> }

NewChunkerCalls ==
  { [fn |-> "NewChunker",
     args |-> <<<<"cam1">>, s, k.username, k.password, k.digest, rate>>,
     returned |-> FALSE, out |-> <<>>] :
      s \in Sources, k \in Credentials, rate \in {0, 5} }

CallNewChunker ==
  /\ call.fn = "NewChunker" /\ ~call.returned
  /\ call' = [call EXCEPT !.returned = TRUE,
                          !.out = NewChunker(call.args[1], call.args[2],
                                             call.args[3], call.args[4],
                                             call.args[5], call.args[6])]
  /\ UNCHANGED <<hubVars, chunkerVars, readerVars, clientVars, published,
                 closes, panicked>>

\* ------------------------------------------------------ one call at a time
\* The worked example of RFC 2617 section 3.5, its challenge with the qop
\* named by the request ("auth").
RFCUsername == <<"Mufasa">>
RFCPassword == <<"Circle", " ", "Of", " ", "Life">>
RFCUri == <<"/", "dir", "/", "index.html">>
RFCRealm == <<"testrealm@host.com">>
RFCNonce == <<"dcd98b7102dd2f0e8b11d0f600bfb0c093">>
RFCOpaque == <<"5ccc069c403ebaf9f0171e9517f40e41">>
RFCCnonce == <<"0a4f113b">>
RFCChallenge ==
  <<"Digest", " ", "realm", "=", "\"">> \o RFCRealm \o <<"\"", ",", " ",
    "qop", "=", "\"", "auth", "\"", ",", " ", "nonce", "=", "\"">> \o RFCNonce
    \o <<"\"", ",", " ", "opaque", "=", "\"">> \o RFCOpaque \o <<"\"">>

\* digestAuthBuild called on a 401 response carrying each challenge.
DigestCalls ==
  { [fn |-> "digestAuthBuild",
     args |-> <<<<"admin">>, <<"secret">>, u, Response(401, w, <<>>), Cnonce>>,
     returned |-> FALSE, out |-> <<>>] :
      u \in { <<"/", "video">>, <<"/">> }, w \in Challenges }
  \cup
  { [fn |-> "digestAuthBuild",
     args |-> <<RFCUsername, RFCPassword, RFCUri, Response(401, RFCChallenge, <<>>),
                RFCCnonce>>,
     returned |-> FALSE, out |-> <<>>] }

CallDigestAuthBuild ==
  /\ call.fn = "digestAuthBuild" /\ ~call.returned
  /\ call' = [call EXCEPT !.returned = TRUE,
                          !.out = digestAuthBuild(call.args[1], call.args[2],
                                                  call.args[3], call.args[4],
                                                  call.args[5])]
  /\ UNCHANGED <<hubVars, chunkerVars, readerVars, clientVars, published,
                 closes, panicked>>

\* The call under study returns: out is what the function returned and did.
CallConnect ==
  /\ call.fn = "Connect" /\ ~call.returned
  /\ call' = [call EXCEPT !.returned = TRUE,
                          !.out = ChunkerConnect(call.args[1], call.args[2],
                                                 call.args[3])]
  /\ UNCHANGED <<hubVars, chunkerVars, readerVars, clientVars, published,
                 closes, panicked>>

\* ---------------------------------------------- the legacy reader (chunker)
\* An upstream body is a sequence of units read one after the other: "\r"
\* and "\n", the words and separators of a header line, and data bytes; each
\* unit counts as one byte of the stream.
ContentLength == <<"Content-Length">>
NotFound == "Content-Length chunk header not found"

\* bufio.Reader.ReadSlice('\n') at position pos: the units up to and with
\* the next "\n", or what is left and io.EOF.
ReadSlice(body, pos) ==
  LET ends == {i \in pos..Len(body) : body[i] = "\n"}
  IN IF ends = {}
       THEN [line |-> SubSeq(body, pos, Len(body)), next |-> Len(body) + 1,
             err |-> "EOF"]
     ELSE LET e == CHOOSE i \in ends : \A j \in ends : i <= j
          IN [line |-> SubSeq(body, pos, e), next |-> e + 1, err |-> "nil"]

\* strings.SplitN(s, ": ", 2)
SplitColonSpace(s) ==
  LET found == {i \in 1..(Len(s) - 1) : s[i] = ":" /\ s[i + 1] = " "}
  IN IF found = {}
       THEN <<s>>
     ELSE LET i == CHOOSE i \in found : \A j \in found : i <= j
          IN <<SubSeq(s, 1, i - 1), SubSeq(s, i + 2, Len(s))>>

\* strings.EqualFold: equality under case folding.
Fold(word) ==
  IF word \in {"content-length", "CONTENT-LENGTH"} THEN "Content-Length" ELSE word
EqualFold(s, t) ==
  Len(s) = Len(t) /\ \A i \in 1..Len(s) : Fold(s[i]) = Fold(t[i])

\* strconv.Atoi: a signed decimal number, or a syntax error.
Atoi(s) ==
  IF Len(s) # 1 THEN [n |-> 0, err |-> "syntax"]
  ELSE CASE s[1] = "0" -> [n |-> 0, err |-> "nil"]
         [] s[1] = "1" -> [n |-> 1, err |-> "nil"]
         [] s[1] = "2" -> [n |-> 2, err |-> "nil"]
         [] s[1] = "3" -> [n |-> 3, err |-> "nil"]
         [] s[1] = "-1" -> [n |-> 0 - 1, err |-> "nil"]
         [] s[1] = "-2" -> [n |-> 0 - 2, err |-> "nil"]
         [] OTHER -> [n |-> 0, err |-> "syntax"]

\* The header loop of readChunkHeader from position pos on: head and size so
\* far.  parts[1] of a line that is only the name is an index out of range.
RECURSIVE readHeaderLines(_, _, _, _)
readHeaderLines(body, pos, head, size) ==
  LET r == ReadSlice(body, pos)
      lineStr == TrimRight(r.line, {"\r", "\n"})
      parts == SplitColonSpace(lineStr)
  IN IF r.err # "nil"
       THEN [head |-> head, size |-> size, err |-> r.err, panic |-> FALSE,
             next |-> r.next]
     ELSE IF lineStr = <<>>
       THEN [head |-> head \o r.line, size |-> size,
             err |-> IF size = 0 - 1 THEN NotFound ELSE "nil",
             panic |-> FALSE, next |-> r.next]
     ELSE IF EqualFold(parts[1], ContentLength)
       THEN IF Len(parts) < 2
              THEN [head |-> head \o r.line, size |-> size, err |-> "nil",
                    panic |-> TRUE, next |-> r.next]
            ELSE IF Atoi(parts[2]).err # "nil"
              THEN [head |-> head \o r.line, size |-> size,
                    err |-> Atoi(parts[2]).err, panic |-> FALSE,
                    next |-> r.next]
            ELSE readHeaderLines(body, r.next, head \o r.line, Atoi(parts[2]).n)
     ELSE readHeaderLines(body, r.next, head \o r.line, size)

\* readChunkHeader that wants the first line to be the boundary marker.
readChunkHeaderChecksBoundary(body, pos) ==
  LET r == ReadSlice(body, pos)
  IN IF r.err # "nil"
       THEN [head |-> <<>>, size |-> 0 - 1, err |-> r.err, panic |-> FALSE,
             next |-> r.next]
     ELSE IF TrimRight(r.line, {"\r", "\n"}) # <<"--myboundary">>
       THEN [head |-> <<>>, size |-> 0 - 1, err |-> "bad boundary",
             panic |-> FALSE, next |-> r.next]
     ELSE readHeaderLines(body, r.next, r.line, 0 - 1)

\* readChunkHeader: the first line whatever it is, then the header lines up
\* to the empty one; size is the last Content-Length, -1 if there was none.
readChunkHeader(body, pos) ==
  LET r == ReadSlice(body, pos)
  IN IF r.err # "nil"
       THEN [head |-> <<>>, size |-> 0 - 1, err |-> r.err, panic |-> FALSE,
             next |-> r.next]
     ELSE readHeaderLines(body, r.next, r.line, 0 - 1)

\* readChunkData: size bytes; make([]byte, size) panics for a negative size.
readChunkData(body, pos, size) ==
  IF size < 0
    THEN [data |-> <<>>, err |-> "nil", panic |-> TRUE, next |-> pos]
  ELSE IF pos + size - 1 > Len(body)
    THEN [data |-> <<>>, err |-> "EOF", panic |-> FALSE, next |-> Len(body) + 1]
  ELSE [data |-> SubSeq(body, pos, pos + size - 1), err |-> "nil",
        panic |-> FALSE, next |-> pos + size]

\* ChunkLoop of chunker from position pos on, with the frames sent so far.
\* The hub takes the first accepts frames; at the next select the stop
\* channel is the case that is ready.
RECURSIVE ChunkLoop(_, _, _, _)
ChunkLoop(body, accepts, pos, frames) ==
  LET h == readChunkHeader(body, pos)
      d == readChunkData(body, h.next, h.size)
  IN IF h.panic
       THEN [frames |-> frames, failure |-> "nil", panic |-> TRUE]
     ELSE IF h.err # "nil"
       THEN [frames |-> frames, failure |-> h.err, panic |-> FALSE]
     ELSE IF d.panic
       THEN [frames |-> frames, failure |-> "nil", panic |-> TRUE]
     ELSE IF d.err # "nil"
       THEN [frames |-> frames, failure |-> d.err, panic |-> FALSE]
     ELSE IF Len(frames) >= accepts
       THEN [frames |-> frames, failure |-> "nil", panic |-> FALSE]
     ELSE IF h.size = 0
       THEN [frames |-> Append(frames, h.head \o d.data),
             failure |-> "received final chunk", panic |-> FALSE]
     ELSE ChunkLoop(body, accepts, d.next, Append(frames, h.head \o d.data))

\* chunker(body, pubChan, stopChan): the frames sent on pubChan and the
\* failure the loop ended with.
chunker(body, accepts) == ChunkLoop(body, accepts, 1, <<>>)

\* Parts of an upstream body: a first line, header lines, the empty line and
\* the data.
PartOf(first, headers, data) ==
  first \o <<"\r", "\n">> \o headers \o <<"\r", "\n">> \o data
HeaderLine(name, value) == <<name, ":", " ", value, "\r", "\n">>
ImageJpeg == <<"Content-Type", ":", " ", "image/jpeg", "\r", "\n">>
Boundary == <<"--myboundary">>
LegacyParts ==
  { PartOf(Boundary, ImageJpeg \o HeaderLine("Content-Length", "2"), <<"d1", "d2">>),
    PartOf(<<"--other">>, ImageJpeg \o HeaderLine("Content-Length", "2"), <<"d1", "d2">>),
    PartOf(<<>>, HeaderLine("content-length", "1") \o ImageJpeg, <<"d1">>),
    PartOf(<<"junk">>, HeaderLine("Content-Length", "1")
                         \o HeaderLine("CONTENT-LENGTH", "2"), <<"d1", "d2">>),
    PartOf(Boundary, ImageJpeg \o HeaderLine("Content-Size", "2"), <<"d1", "d2">>),
    PartOf(Boundary, ImageJpeg, <<"d1", "d2">>),
    PartOf(Boundary, <<>>, <<"d1">>),
    PartOf(Boundary, <<"Content-Length", ":", "2", "\r", "\n">>, <<"d1", "d2">>),
    PartOf(Boundary, HeaderLine("Content-Length", "x"), <<"d1">>),
    PartOf(Boundary, HeaderLine("Content-Length", "0"), <<>>),
    PartOf(Boundary, HeaderLine("Content-Length", "-1"), <<"d1">>),
    PartOf(Boundary, HeaderLine("Content-Length", "-2"), <<"d1">>),
    PartOf(Boundary, <<"Content-Length", "\r", "\n">>, <<"d1">>),
    PartOf(Boundary, HeaderLine("Content-Length", "3"), <<"d1", "d2">>) }
Bodies ==
  {<<>>, <<"--myboundary", "\r", "\n">>, <<"--myboundary">>}
    \cup LegacyParts
    \cup { p \o q : p \in LegacyParts, q \in LegacyParts }

LegacyCalls ==
  { [fn |-> "chunker", args |-> <<body, accepts>>, returned |-> FALSE,
     out |-> <<>>] : body \in Bodies, accepts \in 0..2 }

CallChunker ==
  /\ call.fn = "chunker" /\ ~call.returned
  /\ call' = [call EXCEPT !.returned = TRUE,
                          !.out = chunker(call.args[1], call.args[2])]
  /\ UNCHANGED <<hubVars, chunkerVars, readerVars, clientVars, published,
                 closes, panicked>>

Calls ==
  NewChunkerCalls \cup ConnectCalls \cup DigestCalls \cup StartCalls
    \cup AddrCalls \cup LegacyCalls

CallInit ==
  /\ Constructed
  /\ call \in Calls

CallNext ==
  \/ CallNewChunker
  \/ CallConnect
  \/ CallDigestAuthBuild
  \/ CallStart
  \/ CallGetClientAddr
  \/ CallClientAddress
  \/ CallChunker

CallSpec == CallInit /\ [][CallNext]_vars

\* ================================================================== claims
\* C1: at most one upstream connection (a body opened by Connect() and not
\* yet closed by its read loop) is open at any instant.
C1_AtMostOneConnectionOpen == Cardinality(bodyOpen) <= 1

\* C2 (as stated): at every event-selection point the reader is connected
\* iff the subscriber set is non-empty or the grace period that started when
\* the set last became empty is still running.
C2_ConnectedIffSubscribedOrGrace ==
  Started <=> (subscribers # {} \/ stopTimer = "armed")

\* C2 (amended): the reader is connected only if the subscriber set is
\* non-empty or the idle timer armed when the set last became empty has not
\* yet had its expiry processed by the hub loop.
C2_ConnectedOnlyIfSubscribedOrGrace ==
  Started => (subscribers # {} \/ stopTimer \in {"armed", "fired"})

\* The reader is kept connected through the grace period of an empty set.
C2_Witness == Started /\ subscribers = {} /\ stopTimer = "armed"

\* C3 (as stated): when the last subscriber has unsubscribed and a new one
\* subscribes before the grace period has elapsed, no Connect() call is made.
C3_NoConnectOnResubscribe ==
  [][(subscribers = {} /\ stopTimer = "armed" /\ subscribers' # {})
       => connects' = connects]_vars

\* C3 (amended): when the last subscriber has unsubscribed and a new one
\* subscribes before the grace period has elapsed, and the reader is still
\* Started(), no Connect() call is made.
C3_NoConnectOnResubscribeWhileStarted ==
  [][(subscribers = {} /\ stopTimer = "armed" /\ Started /\ subscribers' # {})
       => (connects' = connects /\ resp' = resp /\ pubChan' = pubChan)]_vars

\* A resubscribe inside the grace period (the timer armed by the emptying
\* unsubscribe is still running) that reused the first connection.
C3_Witness ==
  subscribers # {} /\ stopTimer = "armed" /\ Started /\ connects = 1

\* C4: a burst of subscribes on a hub whose reader is not connected makes one
\* connection: Connect() is called by the subscribe that makes the set size 1
\* and by no other subscribe, and a successful one leaves exactly one open
\* connection.
C4_OneConnectPerBurst ==
  [][/\ (connects' # connects) =>
          (subscribers = {} /\ Cardinality(subscribers') = 1
             /\ connects' = connects + 1)
     /\ (subscribers = {} /\ subscribers' # {} /\ ~Started /\ bodyOpen = {}
           /\ Started') =>
          (connects' = connects + 1 /\ bodyOpen' = {resp'} /\ pubChan' = resp')
     /\ (subscribers # {} /\ subscribers' # subscribers
           /\ subscribers \subseteq subscribers') =>
          UNCHANGED <<connects, resp, stop, pubChan, bodyOpen>>]_vars

\* Two subscribers of one burst share the single connection.
C4_Witness ==
  /\ Cardinality(subscribers) >= 2
  /\ Started
  /\ connects = 1
  /\ bodyOpen = {1}
  /\ \A c \in subscribers : closes[c] = 0

Range(q) == {q[i] : i \in DOMAIN q}
PubIndex(f) == CHOOSE i \in DOMAIN published : published[i] = f

\* C5 (as stated): with a stalled subscriber in the set, a normal subscriber
\* (one that is back waiting on its channel) has received every frame
\* published since its first one.
C5_NormalReceivesAll ==
  \A c \in subscribers :
    (/\ closes[c] = 0 /\ pc[c] = "recv" /\ received[c] # <<>>
     /\ \E d \in subscribers \ {c} : pc[d] = "write")
    => \A i \in PubIndex(received[c][1])..Len(published) :
         published[i] \in Range(received[c])

\* C5 (amended): whatever the other subscribers do, every subscriber that is
\* waiting on its channel when the hub handles a frame receives that frame,
\* after all the frames it received before.
C5_WaitingSubscriberReceives ==
  [][Len(published') > Len(published) =>
       \A c \in subscribers :
         (pc[c] = "recv" /\ closes[c] = 0) =>
            /\ received'[c] = Append(received[c], Last(published'))
            /\ \A i \in DOMAIN received[c] : received[c][i] < Last(published')]_vars

\* One subscriber is stuck writing its first frame, another got two frames.
C5_Witness ==
  \E c, d \in subscribers :
    /\ c # d
    /\ pc[d] = "write" /\ Len(received[d]) = 1
    /\ Len(received[c]) = 2

\* C6: a frame arrival never waits on a subscriber: the hub's handlers are
\* enabled whatever the subscribers do, a subscriber that is not ready is
\* left as it is, and a subscriber gets a frame only in the step in which
\* the hub handles that frame (nothing is queued for it).
C6_PublishNeverWaits ==
  /\ []((pubChan # 0 /\ rpc[pubChan] = "send") => ENABLED HubPublish)
  /\ [](\A c \in Clients : pc[c] = "unsub" => ENABLED HubUnsubscribe(c))
  /\ [](\A c \in Clients :
          (pc[c] = "subscribing" /\ (Started \/ subscribers # {}
                                       \/ connects < MaxConnects))
             => ENABLED HubSubscribe(c))
  /\ [][Len(published') > Len(published) =>
          \A c \in Clients :
            (c \notin subscribers \/ pc[c] # "recv") =>
               (received'[c] = received[c] /\ pc'[c] = pc[c])]_vars
  /\ [][\A c \in Clients :
          (received'[c] # received[c] /\ received'[c] # <<>>) =>
             /\ Len(published') = Len(published) + 1
             /\ received'[c] = Append(received[c], Last(published'))]_vars

\* The second frame was handled while a subscriber was still busy with the
\* first one, and the hub went on.
C6_Witness ==
  /\ published = <<1, 2>>
  /\ \E c \in subscribers : received[c] = <<1>> /\ closes[c] = 0

\* C7: the frames a subscriber received are a subsequence of the frames the
\* hub took from the reader, in the same order and without repetition, and
\* the hub took them in the order in which the reader decoded them.
C7_ReceivedIsSubsequence ==
  /\ \A i, j \in DOMAIN published : i < j => published[i] < published[j]
  /\ \A c \in Clients :
       \A i, j \in DOMAIN received[c] :
          /\ received[c][i] \in Range(published)
          /\ i < j => PubIndex(received[c][i]) < PubIndex(received[c][j])

\* One subscriber got both frames, another only the second.
C7_Witness ==
  \E c, d \in Clients : received[c] = <<1, 2>> /\ received[d] = <<2>>

\* C8: a subscriber's channel is closed at most once, and only by a handler
\* of the hub loop (the closed-intake handler or a subscribe whose Connect()
\* failed), never by a client or reader goroutine.
C8_ClosedAtMostOnceByHub ==
  /\ [](\A c \in Clients : closes[c] <= 1)
  /\ [][(\E c \in Clients : closes'[c] > closes[c]) =>
          (HubPubClosed \/ \E d \in Clients : HubSubscribe(d))]_vars
  /\ [][(ClientStep \/ ReaderStep \/ TimerFire) => UNCHANGED closes]_vars

\* A closed subscriber is still in the set while a later one has joined.
C8_Witness ==
  \E c, d \in subscribers : closes[c] = 1 /\ closes[d] = 0 /\ pc[d] = "recv"

\* C9: a subscribe whose Connect() fails closes, in the same event, the
\* channel of every subscriber in the set, the new one included; a client
\* whose channel was closed before it received a frame answers 503.
C9_ConnectFailureClosesAll ==
  /\ [][(connects' = connects + 1 /\ ~Started') =>
          (/\ subscribers' # subscribers
           /\ \A c \in subscribers' : closes'[c] = 1)]_vars
  /\ [](\A c \in Clients :
          (pc[c] = "unsub" /\ closes[c] > 0 /\ received[c] = <<>>)
             => status[c] = "503")

\* No Connect() has ever succeeded and a client has answered 503.
C9_Witness ==
  /\ stop = 0 /\ connects >= 1
  /\ \E c \in subscribers :
       pc[c] = "unsub" /\ closes[c] = 1 /\ status[c] = "503"

\* C10: when the hub finds its frame channel closed it closes the channel of
\* every subscriber in the set, resets pubChan and leaves the reader not
\* Started(), whether the read loop ended with a failure or without one.
C10_IntakeClosedStopsAll ==
  [][\A f \in {"nil", "error"} :
       (HubPubClosed /\ failure[pubChan] = f) =>
          /\ \A c \in subscribers : closes'[c] = closes[c] + 1
          /\ pubChan' = 0
          /\ ~Started'
          /\ UNCHANGED <<subscribers, connects, resp, stopTimer>>]_vars

\* The only connection ended with a read failure and the hub closed the
\* subscribers that were attached.
C10_Witness ==
  /\ connects = 1 /\ stop = 1 /\ stopCloses[1] = 1 /\ pubChan = 0
  /\ failure[1] = "error" /\ rpc[1] = "closing"
  /\ subscribers # {}
  /\ \A c \in subscribers : closes[c] = 1

\* C11: after the read loop has ended mid-stream the hub does not reconnect
\* on its own: Connect() is called in no step other than a subscribe, a
\* subscribe into a non-empty set (closed subscribers still attached, or
\* joined since) leaves the reader as it is, and so the reader stays
\* disconnected until the set has become empty and a subscribe makes its
\* size 1.
C11_NoAutomaticReconnect ==
  /\ [][(HubPublish \/ HubPubClosed \/ HubTimer \/ TimerFire \/ ReaderStep
           \/ ClientStep \/ \E c \in Clients : HubUnsubscribe(c))
          => UNCHANGED <<connects, resp, stop>>]_vars
  /\ [][(~Started /\ subscribers # {} /\ subscribers' # {})
          => (~Started' /\ UNCHANGED <<connects, resp, stop, pubChan>>)]_vars
  /\ [][(~Started /\ connects' # connects)
          => (/\ \E c \in Clients : HubSubscribe(c)
              /\ subscribers = {}
              /\ Cardinality(subscribers') = 1)]_vars

\* The first connection ended after a frame was published; its subscriber,
\* closed by the hub, is still attached, another one has joined since and
\* waits, and no second Connect() was made.
C11_Witness ==
  /\ connects = 1 /\ pubChan = 0 /\ 1 \in pubClosed /\ published # <<>>
  /\ \E c, d \in subscribers :
       /\ closes[c] = 1 /\ received[c] # <<>>
       /\ closes[d] = 0 /\ pc[d] = "recv"

\* C12: the hub's handling of an idle-timer expiry calls Stop() on the reader
\* only if the subscriber set is empty at that moment (and then it does stop
\* a connected reader); with a subscriber in the set the handler consumes the
\* expiry and changes nothing else.
C12_TimerStopsOnlyWhenEmpty ==
  /\ [][(HubTimer /\ subscribers # {}) =>
          UNCHANGED <<subscribers, pubChan, chunkerVars, readerVars, published,
                      closes, clientVars, panicked>>]_vars
  /\ [][(HubTimer /\ (stopCloses' # stopCloses \/ pubChan' # pubChan))
          => subscribers = {}]_vars
  /\ [][(HubTimer /\ subscribers = {} /\ pubChan # 0) =>
          (/\ stopCloses'[stop] = stopCloses[stop] + 1
           /\ pubChan' = 0
           /\ ~Started')]_vars

\* The idle timer has stopped the first reader: the set is empty, the expiry
\* was consumed, Stop() was called once, and the read loop had not ended by
\* itself.
C12_Witness ==
  /\ subscribers = {} /\ stopTimer = "idle"
  /\ connects = 1 /\ stopCloses[1] = 1 /\ pubChan = 0
  /\ 1 \notin pubClosed

\* C13: an unsubscribe that empties the set does not stop the reader; it
\* leaves the idle timer running with no expiry in its channel, whatever the
\* timer's state was (never started, running, or expired with the expiry not
\* yet consumed), so an expiry is never pending beside a running timer: the
\* timer is started only by an emptying unsubscribe and expires once per
\* start, and the timer stops the reader only from an empty set and with the
\* expiry of the timer that the latest emptying started.
C13_EmptyingRearmsTimer ==
  /\ [][\A c \in Clients :
          (HubUnsubscribe(c) /\ subscribers' = {}) =>
             (/\ UNCHANGED <<stop, stopCloses, pubChan, resp, bodyOpen>>
              /\ Started' = Started
              /\ TimerActive(stopTimer')
              /\ ~TimerPending(stopTimer'))]_vars
  /\ [](stopTimer # "stale")
  /\ [][(TimerActive(stopTimer') /\ stopTimer' # stopTimer) =>
          (subscribers # {} /\ subscribers' = {})]_vars
  /\ [][(TimerPending(stopTimer') /\ ~TimerPending(stopTimer)) =>
          (TimerActive(stopTimer) /\ ~TimerActive(stopTimer'))]_vars
  /\ [][(subscribers' = {} /\ subscribers # {}) => ~TimerPending(stopTimer')]_vars
  /\ [][(HubTimer /\ stopCloses' # stopCloses) =>
          (subscribers = {} /\ stopTimer = "fired")]_vars

\* The last subscriber has gone while the reader waits to hand over a frame:
\* the reader is still connected, its connection open, and the timer runs.
C13_Witness ==
  /\ subscribers = {} /\ stopTimer = "armed" /\ Started
  /\ pubChan = 1 /\ rpc[1] = "send" /\ 1 \in bodyOpen

\* C14: a client writer whose loop has exited, whichever way (channel closed
\* by the hub, client gone, part-create or write error), has its unsubscribe
\* processed by the hub, exactly once: every exit of the loop leads to the
\* pending unsubscribe and nowhere else, a pending unsubscribe is eventually
\* processed, a subscriber leaves the set only by its own unsubscribe being
\* processed, and the set holds exactly the subscribers of unfinished
\* requests.
C14_UnsubscribeProcessedOnce ==
  /\ \A c \in Clients :
       (pc[c] = "unsub") ~> (pc[c] = "idle" /\ c \notin subscribers)
  /\ [](\A c \in Clients :
          c \in subscribers <=> pc[c] \in {"recv", "write", "unsub"})
  /\ [][\A c \in Clients :
          (pc[c] \in {"recv", "write"} /\ pc'[c] \notin {"recv", "write"})
             => pc'[c] = "unsub"]_vars
  /\ [][\A c \in Clients :
          (c \in subscribers /\ c \notin subscribers')
             => (HubUnsubscribe(c) /\ pc[c] = "unsub" /\ pc'[c] = "idle")]_vars

\* The first connection ended after a frame; the hub closed the subscribers,
\* their loops exited, and every unsubscribe has been processed: the set is
\* empty and the timer runs.
C14_Witness ==
  /\ subscribers = {} /\ TimerActive(stopTimer)
  /\ \A c \in Clients : pc[c] = "idle"
  /\ connects = 1 /\ 1 \in pubClosed /\ stopCloses[1] = 1
  /\ published # <<>>

\* C15: the writer decides its response status once.  Status 200 with the
\* multipart content type is written by the write of the first frame and by
\* no later one; a request whose channel was closed before it received a
\* frame ends with 503; a status once written is not replaced, so a response
\* is never both 200 and 503, and a finished stream request has one of them.
C15_StatusDecidedOnce ==
  /\ [][\A c \in Clients :
          status[c] # "none" => (status'[c] = status[c] \/ pc'[c] = "idle")]_vars
  /\ [][\A c \in Clients :
          (status[c] = "none" /\ status'[c] = "200") =>
             (/\ ClientWrite(c)
              /\ Len(received[c]) = 1
              /\ ~headersSent[c] /\ headersSent'[c]
              /\ Multipart \in header'[c])]_vars
  /\ [](\A c \in Clients :
          /\ (status[c] = "200") <=> headersSent[c]
          /\ status[c] = "200" => (received[c] # <<>> /\ header[c] = {Multipart})
          /\ status[c] = "503" => (received[c] = <<>> /\ Multipart \notin header[c])
          /\ (pc[c] = "write" /\ Len(received[c]) > 1) => status[c] = "200"
          /\ (pc[c] = "unsub" /\ closes[c] > 0 /\ received[c] = <<>>)
                => status[c] = "503"
          /\ pc[c] = "unsub" => status[c] \in {"200", "503"})

\* A client that got two frames and answered 200 once, while another one,
\* whose channel was closed before any frame, answered 503.
C15_Witness ==
  \E c, d \in Clients :
    /\ status[c] = "200" /\ Len(received[c]) = 2 /\ pc[c] = "unsub"
    /\ status[d] = "503" /\ closes[d] = 1 /\ pc[d] = "unsub"

\* C16: a request whose method is neither GET nor HEAD is answered 405 with
\* an Allow header naming GET and HEAD, and leaves the hub untouched: the
\* subscriber set, the reader and its connection, the frame channel and the
\* idle timer are unchanged, no Connect() is made, and the request never
\* reaches the hub.
C16_MethodNotAllowedLeavesHub ==
  /\ [][\A c \in Clients :
          MethodNotAllowed(c) =>
             (/\ status'[c] = "405"
              /\ <<"Allow", "GET, HEAD">> \in header'[c]
              /\ pc'[c] = "rejected"
              /\ UNCHANGED <<subscribers, pubChan, stopTimer, chunkerVars,
                             readerVars, published, closes>>)]_vars
  /\ [][\A c \in Clients :
          pc[c] = "rejected" =>
             (/\ pc'[c] \in {"rejected", "idle"}
              /\ (\E d \in Clients : HubSubscribe(d) \/ HubUnsubscribe(d)) => pc'[c] = pc[c]
              /\ c \notin subscribers')]_vars
  /\ [](\A c \in Clients :
          (status[c] = "405") <=> (pc[c] = "rejected"))

\* A request was answered 405 while another client is subscribed to the
\* started reader and the rejected client is not in the set.
C16_Witness ==
  \E c, d \in Clients :
    /\ status[c] = "405" /\ <<"Allow", "GET, HEAD">> \in header[c]
    /\ c \notin subscribers
    /\ d \in subscribers /\ Started /\ connects = 1 /\ stopTimer = "idle"

\* C17: when a client disconnects or its write fails, only that client's
\* subscriber is removed.  The client's exit and the hub's handling of its
\* unsubscribe leave every other subscriber in the set, with its channel as
\* it was and its position unchanged; while another subscriber remains the
\* reader is not stopped and the hub keeps its frame channel and timer, and
\* the remaining subscribers that wait are handed the next frame.
C17_OnlyThatClientRemoved ==
  /\ [][\A c \in Clients :
          (ClientCtxDone(c) \/ ClientWrite(c)) =>
             (/\ UNCHANGED <<subscribers, closes, hubVars, chunkerVars>>
              /\ \A d \in Clients \ {c} :
                   pc'[d] = pc[d] /\ received'[d] = received[d])]_vars
  /\ [][\A c \in Clients :
          HubUnsubscribe(c) =>
             (/\ subscribers' = subscribers \ {c}
              /\ \A d \in Clients \ {c} :
                   /\ closes'[d] = closes[d]
                   /\ pc'[d] = pc[d]
                   /\ received'[d] = received[d]
              /\ UNCHANGED <<stop, stopCloses, resp, pubChan, bodyOpen, rpc>>
              /\ Started' = Started
              /\ subscribers' # {} => UNCHANGED stopTimer)]_vars
  /\ [][(HubPublish /\ \E c \in Clients : pc[c] = "unsub" \/ c \notin subscribers) =>
          \A d \in subscribers :
             (pc[d] = "recv" /\ closes[d] = 0) =>
                received'[d] = Append(received[d], rframe[pubChan])]_vars

\* One client's loop has exited without its channel being closed (it went
\* away or its write failed) after one frame; the other is still in the
\* set with its channel open and has been handed a later frame.
C17_Witness ==
  \E c, d \in subscribers :
    /\ pc[c] = "unsub" /\ closes[c] = 0 /\ received[c] = <<1>>
    /\ closes[d] = 0 /\ received[d] # <<>> /\ Last(received[d]) = 2
    /\ pc[d] \in {"recv", "write"}
    /\ Started /\ pubChan = 1

\* C18 (as stated): after Stop() has been called on a streaming reader the
\* read loop eventually exits, having closed the frame sink; in particular
\* when Stop() is called while the loop is waiting to hand a frame to the
\* hub, which has dropped its frame channel.  (Behaviours in which a
\* subscribe is left waiting for the hub loop are not counted against the
\* statement.)
C18_StoppedReaderExits ==
  \A i \in Conns :
    (rpc[i] \in {"read", "send"} /\ stopCloses[i] > 0)
       ~> \/ rpc[i] = "exited" /\ i \in pubClosed
          \/ \E c \in Clients : pc[c] = "subscribing"

\* The most recent Connect() call succeeded: the stop channel is the one made
\* by the latest call (a failed call makes none).
LastConnectSucceeded == connects > 0 /\ stop = connects
\* Stop() has not been called since then: that channel was never closed.
NoStopSince == stopCloses[stop] = 0

\* C19: Started() is true iff the most recent Connect() succeeded and Stop()
\* has not been called since: false before any Connect(), false after a
\* failed first Connect(), true from a successful Connect() until Stop(),
\* false from then on until the next successful Connect().
C19_StartedIffConnectedNotStopped ==
  /\ [](Started <=> (LastConnectSucceeded /\ NoStopSince))
  /\ [](connects = 0 => ~Started)
  /\ []((connects > 0 /\ \A i \in 1..connects : rpc[i] = "none") => ~Started)
  /\ [][(connects' # connects /\ stop' = connects') => Started']_vars
  /\ [][(connects' # connects /\ stop' # connects') => (~Started /\ ~Started')]_vars
  /\ [][(Started /\ ~Started') => stopCloses'[stop] = stopCloses[stop] + 1]_vars
  /\ [][(stopCloses' # stopCloses) => ~Started']_vars
  /\ [][(Started /\ stopCloses' = stopCloses) => Started']_vars

\* The reader was connected, stopped, and a later Connect() failed: Stop()
\* was called once and the reader is not started.
C19_Witness ==
  /\ connects = 2 /\ stop = 1 /\ stopCloses[1] = 1 /\ rpc[2] = "none"
  /\ ~Started

\* C20 (as stated): Stopped and Failed are terminal: a reader on which Stop()
\* has been called, or whose Connect() has failed, is never Streaming
\* (started) again.
C20_StoppedAndFailedAreTerminal ==
  ((\E i \in Conns : stopCloses[i] > 0) \/ (\E i \in 1..connects : rpc[i] = "none"))
     => ~Started

\* C21 (as stated): the hub calls Connect() only while Started() is false,
\* and never while the read loop of the previous connection is still
\* running (a loop that was asked to stop but has not exited yet).
C21_NoConnectWhilePreviousLoopRuns ==
  [][connects' # connects =>
       (/\ ~Started
        /\ \A i \in Conns : rpc[i] \in {"none", "exited"})]_vars

\* C26 (as stated): the subscriber set and the reader handle with its
\* connection and stop-signal fields are accessed only by the hub loop: what
\* a read loop goroutine works with is its own connection's body and stop
\* channel, whatever the hub has written to the fields since, and no client
\* or reader step writes the set or the fields.
C26_HubOwnsReaderFields ==
  /\ [](\A i \in Conns : rbody[i] \in {0, i})
  /\ [][\A i \in Conns :
          (rpc[i] = "read" /\ stopCloses[i] > 0 /\ rpc'[i] = "send") => FALSE]_vars
  /\ [][(ReaderStep \/ ClientStep \/ TimerFire) =>
          UNCHANGED <<subscribers, resp, stop, stopCloses, pubChan>>]_vars

\* C27 (as stated): the hub loop blocks only at its event selection and
\* performs no I/O itself: no handler of a hub event (frame, subscribe,
\* unsubscribe, timer fire) makes an HTTP exchange with the source.
C27_HubHandlersDoNoIO ==
  [][HubStep => connects' = connects]_vars

\* ------------------------------------------------------------------- C22
\* The Connect() call under study has returned (or ended in a panic).
ConnectReturned == call.fn = "Connect" /\ call.returned
\* The response Connect() ends with: the second one if a retry was sent.
FinalReply ==
  IF Len(call.out.requests) = 2 THEN call.args[2][2] ELSE call.args[2][1]
FinalName == IF Len(call.out.requests) = 2 THEN "second" ELSE "first"

\* C22: in Digest mode Connect() sends at most two requests; the second one
\* is sent only when the first response is a 401 with a Digest challenge, and
\* it carries "Digest " followed by the value computed from that challenge;
\* a final response that is not 200 (a 401 on the second request included)
\* makes Connect() return an error with that response closed and the reader
\* not Started().
C22_DigestRetriesAtMostOnce ==
  (ConnectReturned /\ digestAuthEnabled(call.args[1])) =>
    /\ Len(call.out.requests) \in {1, 2}
    /\ Len(call.out.requests) = 2 =>
         /\ ~call.args[2][1].failed
         /\ call.args[2][1].status = 401
         /\ HasPrefix(call.args[2][1].wwwAuthenticate, <<"Digest", " ">>)
         /\ call.out.requests[1].authorization = <<>>
         /\ call.out.requests[2].authorization =
              <<"Digest", " ">>
                \o digestAuthBuild(call.args[1].username, call.args[1].password,
                                   call.args[1].uri, call.args[2][1],
                                   call.args[3]).value
    /\ (~call.out.panic /\ ~FinalReply.failed /\ FinalReply.status # 200) =>
         /\ call.out.err # "nil"
         /\ FinalName \in call.out.closed
         /\ call.out.stop # "open"
         /\ call.out.resp = call.args[1].resp

\* A retry was sent and answered by another 401: Connect() failed.
C22_Witness ==
  /\ ConnectReturned /\ digestAuthEnabled(call.args[1])
  /\ Len(call.out.requests) = 2
  /\ call.args[2][2].status = 401
  /\ call.out.err = "request failed"
  /\ call.out.closed = {"first", "second"}

\* ------------------------------------------------------------------- C23
\* The Content-Type of the final response names a multipart media type and a
\* non-empty boundary.
FinalIsMultipart ==
  /\ HasPrefix(parseMediaType(FinalReply.contentType).mediaType,
               <<"multipart", "/">>)
  /\ MapGet(parseMediaType(FinalReply.contentType).params, <<"boundary">>) # <<>>

\* C23: Connect() returns nil only for a 200 response whose media type starts
\* with multipart/ and whose boundary parameter is not empty, and then stores
\* that response, its boundary and a new stop channel; for any other 200
\* response it returns an error, closes the response body and leaves resp,
\* boundary and stop as they were (the reader is not Started()).
C23_SuccessNeedsMultipartBoundary ==
  (ConnectReturned /\ ~call.out.panic) =>
    /\ call.out.err = "nil" =>
         /\ ~FinalReply.failed /\ FinalReply.status = 200
         /\ FinalIsMultipart
         /\ call.out.resp = FinalName
         /\ call.out.stop = "open"
         /\ call.out.boundary =
              MapGet(parseMediaType(FinalReply.contentType).params, <<"boundary">>)
    /\ (~FinalReply.failed /\ FinalReply.status = 200 /\ ~FinalIsMultipart) =>
         /\ call.out.err # "nil"
         /\ FinalName \in call.out.closed
         /\ call.out.resp = call.args[1].resp
         /\ call.out.boundary = call.args[1].boundary
         /\ call.out.stop = call.args[1].stop
         /\ call.out.stop # "open"

\* A 200 multipart response without a boundary was refused after an earlier
\* connection: the fields of that earlier connection are still there.
C23_Witness ==
  /\ ConnectReturned
  /\ FinalReply.status = 200
  /\ FinalReply.contentType = <<"multipart", "/", "x-mixed-replace">>
  /\ call.out.err = "boundary not found"
  /\ call.out.closed = {"first"}
  /\ call.out.resp = "earlier"

\* ------------------------------------------------------------------- C24
\* The Start() call under study has run through its events.
StartReturned == call.fn = "Start" /\ call.returned
\* Position k holds a frame the read loop gets to while it is not stopped.
FrameReached(k) ==
  /\ k \in 1..Len(call.args[2])
  /\ call.args[2][k] = "frame"
  /\ \A j \in 1..(k - 1) : call.args[2][j] \in {"tick", "frame"}
Delivered(k) == \E n \in 1..Len(call.out.delivered) : call.out.delivered[n] = k
\* A tick fired after the last frame delivered before position k.
TickSinceLastDelivery(k) ==
  \E t \in 1..(k - 1) :
    /\ call.args[2][t] = "tick"
    /\ \A j \in (t + 1)..(k - 1) : ~Delivered(j)

\* C24 (as stated): with a rate limit, the first frame is delivered, and a
\* later frame is delivered if a tick of the ticker fired since the previous
\* delivered frame and dropped otherwise.
C24_LaterFrameNeedsTickSinceDelivery ==
  (StartReturned /\ call.args[1] > 0) =>
    \A k \in 1..Len(call.args[2]) :
      FrameReached(k) =>
        IF \A j \in 1..(k - 1) : call.args[2][j] # "frame"
          THEN Delivered(k)
          ELSE Delivered(k) <=> TickSinceLastDelivery(k)

\* ------------------------------------------------------------------- C25
\* C25 (as stated): a body made of a non-empty part followed by a part of
\* length 0 gives exactly one delivered frame, the non-empty one, and the
\* part of length 0 ends the read loop as a clean end of stream: no failure
\* is recorded.
C25_EmptyPartEndsCleanly ==
  (StartReturned /\ call.args[2] = <<"frame", "empty">>) =>
    /\ call.out.delivered = <<1>>
    /\ call.out.exited
    /\ call.out.failure = "nil"

\* ------------------------------------------------------------------- C28
AddrReturned == call.fn = "GetClientAddr" /\ call.returned
\* Entry n of X-Forwarded-For is the first one that is an IP address.
FirstValidEntry(n) ==
  /\ n \in 1..Len(Split(call.args[2].xForwardedFor, ","))
  /\ ParseIP(Split(call.args[2].xForwardedFor, ",")[n]) # <<>>
  /\ \A j \in 1..(n - 1) :
       ParseIP(Split(call.args[2].xForwardedFor, ",")[j]) = <<>>
\* The address a, alone or followed by the peer's port when a is the peer.
FromAddress(a) ==
  \/ call.out = a
  \/ /\ a = SplitHostPort(call.args[2].remoteAddr).host
     /\ call.out = call.args[2].remoteAddr

SourceIsAbsolute ==
  /\ Len(call.args[2]) >= 2
  /\ call.args[2][1] \in SchemeWords
  /\ call.args[2][2] = ":"

\* C29: NewChunker on a source URI that is not absolute returns an error and
\* no reader, and sends no request to the network.
C29_RelativeSourceRefused ==
  (call.fn = "NewChunker" /\ call.returned) =>
    /\ call.out.requests = <<>>
    /\ ~SourceIsAbsolute => (call.out.err # "nil" /\ ~call.out.made)

\* A URI that parses but has no scheme was refused as not absolute.
C29_Witness ==
  /\ call.fn = "NewChunker" /\ call.returned
  /\ call.args[2] = <<"/", "/", "cam", "/", "video">>
  /\ call.out.err = "uri is not absolute"
  /\ ~call.out.made

\* ------------------------------------------------------------------- C30
\* C30 (as stated): digestAuthBuild on a challenge without realm, without
\* nonce, or with an item that is not key=value fails with an error (it
\* returns, and without an Authorization value).
C30_MalformedChallengeRefused ==
  (/\ call.fn = "digestAuthBuild" /\ call.returned
   /\ call.args[4].wwwAuthenticate \in {NoRealm, NoNonce} \cup NotKeyValue) =>
    /\ ~call.out.panic
    /\ call.out.value = <<>>

\* ------------------------------------------------------------------- C31
DigestReturned == call.fn = "digestAuthBuild" /\ call.returned
\* The string s holds the string part somewhere.
Contains(s, part) ==
  \E i \in 1..(Len(s) - Len(part) + 1) : SubSeq(s, i, i + Len(part) - 1) = part
\* The challenge has an item key="word", read as RFC 2617 writes it.
HasItem(challenge, key) ==
  \E i \in 1..(Len(challenge) - 1) : challenge[i] = key /\ challenge[i + 1] = "="
ItemValue(challenge, key) ==
  LET i == CHOOSE i \in 1..(Len(challenge) - 1) :
             challenge[i] = key /\ challenge[i + 1] = "="
  IN IF challenge[i + 2] = "\"" THEN <<challenge[i + 3]>> ELSE <<challenge[i + 2]>>
\* The qop item of the challenge lists auth: "auth" stands in the value of
\* the qop item, the value running to the next "=".
QopIncludesAuth(challenge) ==
  \E i \in 1..(Len(challenge) - 1) :
    /\ challenge[i] = "qop" /\ challenge[i + 1] = "="
    /\ \E j \in (i + 2)..Len(challenge) :
         /\ challenge[j] = "auth"
         /\ \A m \in (i + 2)..j : challenge[m] # "="
\* The response value RFC 2617 defines for qop=auth.
QopAuthResponse ==
  Md5Hex(Md5Hex(call.args[1] \o <<":">>
                  \o ItemValue(call.args[4].wwwAuthenticate, "realm")
                  \o <<":">> \o call.args[2])
         \o <<":">> \o ItemValue(call.args[4].wwwAuthenticate, "nonce")
         \o <<":", "00000001", ":">> \o call.args[5] \o <<":", "auth", ":">>
         \o Md5Hex(<<"GET", ":">> \o call.args[3]))

\* C31 (as stated): for a well-formed challenge the Authorization value
\* holds username, realm, nonce, uri and response; it holds nc=00000001,
\* cnonce, qop=auth and algorithm=MD5 exactly if the qop list of the
\* challenge includes auth, and then the response hash covers nc, cnonce and
\* qop; it holds opaque exactly if the challenge has one, with its value.
C31_AuthorizationFields ==
  (/\ DigestReturned
   /\ call.args[4].wwwAuthenticate
        \in GoodChallenges \cup MoreChallenges \cup {QopList, RFCChallenge}) =>
    LET challenge == call.args[4].wwwAuthenticate
        value == call.out.value
    IN /\ ~call.out.panic
       /\ Contains(value, Quoted("username", call.args[1]))
       /\ Contains(value, Quoted("realm", ItemValue(challenge, "realm")))
       /\ Contains(value, Quoted("nonce", ItemValue(challenge, "nonce")))
       /\ Contains(value, Quoted("uri", call.args[3]))
       /\ Contains(value, <<"response", "=", "\"">>)
       /\ IF QopIncludesAuth(challenge)
            THEN /\ Contains(value, <<"nc", "=", "00000001">>)
                 /\ Contains(value, Quoted("cnonce", call.args[5]))
                 /\ Contains(value, <<"qop", "=", "auth">>)
                 /\ Contains(value, <<"algorithm", "=", "MD5">>)
                 /\ Contains(value, Quoted("response", QopAuthResponse))
            ELSE /\ ~Contains(value, <<"nc", "=">>)
                 /\ ~Contains(value, <<"cnonce", "=">>)
                 /\ ~Contains(value, <<"qop", "=">>)
                 /\ ~Contains(value, <<"algorithm", "=">>)
       /\ IF HasItem(challenge, "opaque")
            THEN Contains(value, Quoted("opaque", ItemValue(challenge, "opaque")))
            ELSE ~Contains(value, <<"opaque", "=">>)

\* ------------------------------------------------------------------- C32
\* The call under study is the worked example of RFC 2617.
RFCExampleReturned ==
  /\ DigestReturned
  /\ call.args = <<RFCUsername, RFCPassword, RFCUri,
                   Response(401, RFCChallenge, <<>>), RFCCnonce>>
\* The request-digest of the RFC example, MD5 written out:
\* MD5(MD5(A1) ":" nonce ":" nc ":" cnonce ":" qop ":" MD5(A2)).
RFCResponse ==
  <<"md5(",
      "md5(", "Mufasa", ":", "testrealm@host.com", ":",
              "Circle", " ", "Of", " ", "Life", ")",
      ":", "dcd98b7102dd2f0e8b11d0f600bfb0c093",
      ":", "00000001", ":", "0a4f113b", ":", "auth", ":",
      "md5(", "GET", ":", "/", "dir", "/", "index.html", ")",
    ")">>

C33_IdentityIsInstance ==
  [][\A c \in Clients : \A d \in subscribers \ {c} :
       RemoteAddr(d) = RemoteAddr(c) =>
         /\ HubSubscribe(c) => (c \in subscribers' /\ d \in subscribers')
         /\ HubUnsubscribe(c) =>
              (/\ subscribers' = subscribers \ {c}
               /\ d \in subscribers'
               /\ closes'[d] = closes[d])]_vars

\* Two subscribers with one address are in the set, both channels open, and
\* the unsubscribe of one of them is about to be processed.
C33_Witness ==
  \E c, d \in subscribers :
    /\ c # d /\ RemoteAddr(c) = RemoteAddr(d)
    /\ Cardinality(subscribers) = 2
    /\ pc[c] = "unsub" /\ closes[c] = 0 /\ closes[d] = 0
    /\ pc[d] = "recv"

\* ------------------------------------------------------------------- C34
\* C34 (as stated): a subscriber whose subscribe has been processed and that
\* waits on its channel without having received anything eventually stops
\* waiting: it is handed a frame, finds its channel closed, or goes away
\* itself.  (Behaviours under Fairness: the reader of a connection keeps
\* reading until it delivers or ends, and the hub takes its ready cases.)
C34_SubscriberServedOrClosed ==
  \A c \in Clients :
    (c \in subscribers /\ pc[c] = "recv" /\ received[c] = <<>>)
      ~> (pc[c] # "recv")


\* C35: the hub never sends a frame on a closed subscriber channel: in every
\* step that processes a frame arrival, each subscriber in the set has an
\* open channel, although closed subscribers stay in the set until their own
\* unsubscribe is processed.
C35_NoSendOnClosedChannel ==
  [][HubPublish => \A d \in subscribers : closes[d] = 0]_vars

\* A frame of the second connection is about to be processed for a non-empty
\* set, after the first connection ended and its subscribers were closed.
C35_Witness ==
  /\ pubChan = 2
  /\ rpc[2] = "send"
  /\ 1 \in pubClosed
  /\ stopCloses[1] > 0
  /\ published # <<>>
  /\ subscribers # {}


\* C36: at every event-selection point of the hub its frame intake handle is
\* non-nil exactly when the reader reports Started(); so the hub calls Stop()
\* only on a Started() reader and never twice for the same connection.
C36_IntakeIffStarted ==
  /\ (pubChan # 0) <=> Started
  /\ \A i \in Conns : stopCloses[i] <= 1
  /\ ~panicked

\* The hub has stopped the reader of the first connection and holds the
\* intake of a second one.
C36_Witness ==
  /\ stopCloses[1] = 1
  /\ pubChan = 2
  /\ Started


\* C37: in Digest mode no request of Connect() carries Basic credentials: the
\* first request has no Authorization header and a retry carries only the
\* Digest value; the first request carries Basic credentials only when
\* username and password are both non-empty and Digest mode is off.
C37_NoBasicInDigestMode ==
  ConnectReturned =>
    /\ call.args[1].digest =>
         /\ call.out.requests[1].authorization = <<>>
         /\ \A k \in 1..Len(call.out.requests) :
              ~HasPrefix(call.out.requests[k].authorization, <<"Basic">>)
         /\ Len(call.out.requests) = 2 =>
              HasPrefix(call.out.requests[2].authorization, <<"Digest", " ">>)
    /\ HasPrefix(call.out.requests[1].authorization, <<"Basic">>) =>
         /\ call.args[1].username # <<>>
         /\ call.args[1].password # <<>>
         /\ ~call.args[1].digest

\* A Digest-mode Connect() that sent the retry.
C37_Witness ==
  /\ ConnectReturned
  /\ call.args[1].digest
  /\ Len(call.out.requests) = 2
  /\ call.out.requests[1].authorization = <<>>


\* C38: the writer answers 503 only when the hub closed its channel before
\* any frame was delivered to it; a client that disconnects before the first
\* frame ends its request without a 503 being written.
C38_Only503AfterHubClose ==
  \A c \in Clients :
    status[c] = "503" => (closes[c] > 0 /\ received[c] = <<>>)


\* ------------------------------------------------------------------- C39
LegacyReturned == call.fn = "chunker" /\ call.returned
\* The first part of a body as the stream lays it out: the end of its first
\* line, the end of the empty line closing its headers (0 if there is none),
\* and its header lines, each named by the position of its "\n".
FirstLineEnd(body) == Index(body, "\n")
LineAt(body, e) ==
  LET starts == {i \in 1..e : \A j \in i..(e - 1) : body[j] # "\n"}
      b == CHOOSE i \in starts : \A j \in starts : i <= j
  IN TrimRight(SubSeq(body, b, e), {"\r", "\n"})
HeadersEnd(body) ==
  LET empties == {e \in (FirstLineEnd(body) + 1)..Len(body) :
                    body[e] = "\n" /\ LineAt(body, e) = <<>>}
  IN IF FirstLineEnd(body) = 0 \/ empties = {} THEN 0
     ELSE CHOOSE e \in empties : \A j \in empties : e <= j
HeaderEnds(body) ==
  {e \in (FirstLineEnd(body) + 1)..(HeadersEnd(body) - 1) : body[e] = "\n"}
\* The header lines named Content-Length, in any case.
LengthEnds(body) ==
  {e \in HeaderEnds(body) : LineAt(body, e) # <<>> /\ Fold(LineAt(body, e)[1]) = "Content-Length"}
\* The headers of the first part are complete and none is a Content-Length.
NoLength(body) == HeadersEnd(body) > 0 /\ LengthEnds(body) = {}
\* They are complete and the last Content-Length says n, with n data bytes
\* following, the other Content-Length lines being numbers too.
LengthIs(body, n) ==
  /\ HeadersEnd(body) > 0
  /\ LengthEnds(body) # {}
  /\ \A e \in LengthEnds(body) :
       /\ Len(LineAt(body, e)) = 4
       /\ LineAt(body, e)[2] = ":" /\ LineAt(body, e)[3] = " "
       /\ LineAt(body, e)[4] \in {"0", "1", "2", "3"}
  /\ LET e == CHOOSE e \in LengthEnds(body) : \A j \in LengthEnds(body) : j <= e
     IN LineAt(body, e)[4] = ToString(n)
  /\ HeadersEnd(body) + n <= Len(body)
\* Content-Length lines anywhere in the body.
LengthLines(body) ==
  Cardinality({i \in 1..Len(body) : Fold(body[i]) = "Content-Length"})

\* C39: the legacy reader takes the first line of a part as the boundary
\* marker whatever it says and the byte count from Content-Length alone: a
\* part with a Content-Length of n is delivered as its first line, headers
\* and n data bytes; a part whose headers end without Content-Length ends
\* the loop with an error and no frame is delivered for it.
C39_LegacyReaderPermissive ==
  LegacyReturned =>
    LET body == call.args[1]
        accepts == call.args[2]
    IN /\ NoLength(body) =>
            /\ ~call.out.panic
            /\ call.out.failure = NotFound
            /\ call.out.frames = <<>>
       /\ \A n \in 0..3 :
            (LengthIs(body, n) /\ accepts >= 1) =>
              /\ Len(call.out.frames) >= 1
              /\ call.out.frames[1] = SubSeq(body, 1, HeadersEnd(body) + n)
       /\ Len(call.out.frames) <= LengthLines(body)

\* A part whose first line is not the boundary was delivered, and the part
\* after it, without Content-Length, ended the loop.
C39_Witness ==
  /\ LegacyReturned
  /\ LengthIs(call.args[1], 2)
  /\ LineAt(call.args[1], FirstLineEnd(call.args[1])) # Boundary
  /\ Len(call.out.frames) = 1
  /\ call.out.failure = NotFound

====
